---- MODULE Spec2Model ----
(***************************************************************************)
(* Verification model of eldersvr-cli: the device transfer engine          *)
(* (cli.py, core/adb_manager.py), the download engine                      *)
(* (core/content_manager.py) and the storage resolver.                     *)
(*                                                                         *)
(* Specifications:                                                         *)
(*   Spec          the `transfer` command over master and slave            *)
(*   ConflictSpec  the conflict detector on its own, over every file size  *)
(*   ExpandSpec    the task expansion of the download engine               *)
(*   DownloadSpec  download_all_assets / download_images_only              *)
(*   EquivSpec     the parallel and the sequential download path run on    *)
(*                 the same task list and the same network outcomes        *)
(*   StorageSpec   ADBManager.verify_storage_access                        *)
(***************************************************************************)
EXTENDS Integers, Sequences, FiniteSets, TLC

(***************************************************************************)
(* Bounds                                                                  *)
(***************************************************************************)
MaxVideoId == 1
MaxImageId == 1

VARIABLES
    \* ---- transfer command (cli.py) ----
    args,                    \* argparse namespace of `transfer`
    config,                  \* config['devices']: which serials are configured
    localFs,                 \* the local downloads directory
    pc,                      \* position inside cmd_transfer / _transfer_to_*
    cur,                     \* device whose transfer is running
    conflict_action_all,     \* EldersVRCLI._conflict_action_all
    progress,                \* TransferProgress.devices
    local_files_to_transfer, \* per device: keys of local_files_to_transfer
    conflict_check,          \* per device: result of check_transfer_conflicts
    files_to_skip,           \* per device: files_to_skip
    resolution,              \* per device: the choice made at the bulk prompt
    remote,                  \* per device: size of each file on the device (0 = absent)
    checks,                  \* per device: number of conflict checks run
    prompts,                 \* per device: number of resolution prompts shown
    invalid_inputs,          \* an invalid answer was typed at the current prompt
    dirs_created,            \* per device: directories created by mkdir -p
    pushLog,                 \* sequence of adb push invocations
    success,                 \* `success` of cmd_transfer
    dev_success,             \* `success` of the running _transfer_to_*
    exit_code                \* return value of cmd_transfer (-1: not returned)

tvars == <<args, config, localFs, pc, cur, conflict_action_all, progress,
           local_files_to_transfer, conflict_check, files_to_skip, resolution,
           remote, checks, prompts, invalid_inputs, dirs_created, pushLog,
           success, dev_success, exit_code>>

VARIABLES
    \* ---- download engine (content_manager.py) ----
    manifest,            \* new_data.json: number of videos, imageUrl of each tag
    dl_args,             \* quality, images_only, parallel
    dl_config,           \* max_concurrent_downloads, retry_attempts
    existing,            \* tasks whose local_path exists when the pre-filter runs
    download_tasks,      \* the expanded task list
    tasks_to_download,   \* the execution list
    skipped_files,       \* names returned by check_existing_files
    download_stats,      \* the DownloadStats dictionary
    dl_pc,               \* position inside download_all_assets / download_images_only
    prefilter_choice,    \* answer typed at the override/skip/cancel prompt
    task_state,          \* per position of the execution list
    seq_i                \* tasks the sequential loop has taken

dvars == <<manifest, dl_args, dl_config, existing, download_tasks, tasks_to_download,
           skipped_files, download_stats, dl_pc, prefilter_choice, task_state, seq_i>>

VARIABLES
    \* ---- parallel and sequential path on the same inputs ----
    eq_tasks,            \* the common task list
    eq_outcomes,         \* per task: the outcome of each attempt
    eq_retry,            \* retry_attempts
    eq_seq,              \* what _download_assets_sequential returns
    eq_par,              \* what _download_assets_parallel returns with one worker
    eq_pc                \* which of the two runs has been made

evars == <<eq_tasks, eq_outcomes, eq_retry, eq_seq, eq_par, eq_pc>>

VARIABLES
    \* ---- storage resolver (adb_manager.py) ----
    eldersvr_path,       \* ADBManager.eldersvr_path
    video_path,          \* ADBManager.video_path
    image_path,          \* ADBManager.image_path
    device_root_status,  \* ADBManager._device_root_status
    s_serial,            \* the serial verify_storage_access is called with
    dev_facts,           \* the device: su / root setup behaviour, fallback probes
    primary_state,       \* the device: what test -d / test -w say of the primary path
    s_pc,                \* position inside verify_storage_access
    s_fallback_i,        \* index of the fallback being tried
    s_probes,            \* probes issued so far
    s_result             \* return value of verify_storage_access

svars == <<eldersvr_path, video_path, image_path, device_root_status, s_serial,
           dev_facts, primary_state, s_pc, s_fallback_i, s_probes, s_result>>

VARIABLES
    \* ---- conflict detector on its own ----
    cf_local,            \* the local file set handed to the check
    cf_remote,           \* size of each file on the device (0 = absent)
    cf_report,           \* the ConflictReport
    cf_pc

cvars == <<cf_local, cf_remote, cf_report, cf_pc>>

VARIABLES
    \* ---- preflight of a command (cli.py _preflight_check and its callers) ----
    pf_command,          \* the command that runs
    pf_checks,           \* the list handed to _preflight_check
    pf_facts,            \* configuration, backend, local manifest and devices as found
    pf_pc,               \* position inside the command
    all_passed,          \* local variable of _preflight_check
    pf_calls,            \* collaborators invoked so far, in order
    pf_exit              \* return value of the command (-1: not returned)

pvars == <<pf_command, pf_checks, pf_facts, pf_pc, all_passed, pf_calls, pf_exit>>

VARIABLES
    \* ---- one video / image push loop (adb_manager.py _push_video_files, push_images) ----
    pl_kind,             \* "videos" or "images"
    pl_files,            \* the list: per file its local state and how its push ends
    pl_idx,              \* loop variable idx (0 before the first file)
    pl_pc,               \* position inside the loop
    success_count,       \* local variable success_count
    pl_polls,            \* polls made on the push in flight
    pl_started,          \* positions whose `adb push` was started
    pl_sink,             \* (current, total) values delivered to the progress callback
    pl_entry,            \* the class entry of TransferProgress the callback updates
    pl_result            \* the returned (success_count, total)

lvars == <<pl_kind, pl_files, pl_idx, pl_pc, success_count, pl_polls, pl_started,
           pl_sink, pl_entry, pl_result>>

VARIABLES
    \* ---- one ADBManager object used for several calls and serials ----
    m_op,                \* the last method called on the object
    m_serial,            \* the serial it was called with
    resolved,            \* per serial: the base path its last successful resolution gave
    root_returned,       \* per serial: the values check_root_access has returned
    root_enabled,        \* per serial: enable_adb_root has succeeded
    root_call            \* the last call of check_root_access

mvars == <<m_op, m_serial, resolved, root_returned, root_enabled, root_call>>

VARIABLES
    \* ---- authentication state of ContentManager (content_manager.py) ----
    auth_token,          \* ContentManager.auth_token ("none" for None)
    user_info,           \* ContentManager.user_info: "none", "empty" ({}) or "data"
    company_info,        \* ContentManager.company_info, likewise
    token_file,          \* ~/.eldersvr_auth_token
    a_op,                \* the last method called
    auth_ok,             \* what authenticate last returned
    vt_answer,           \* what the backend answered to the last validate_token
    vt_result            \* what the last validate_token returned

avars == <<auth_token, user_info, company_info, token_file, a_op, auth_ok, vt_answer,
          vt_result>>

VARIABLES
    \* ---- download_file called for each task of a list (content_manager.py 231-281) ----
    rt_retry_attempts,   \* ContentManager.retry_attempts
    rt_tasks,            \* length of the task list
    rt_i,                \* the task being downloaded (0 before the first)
    rt_attempt,          \* loop variable `attempt` of download_file
    rt_pc,               \* position: caller's loop, inside download_file, sleeping
    rt_state             \* per task: attempts made, delays waited, what download_file did

rvars == <<rt_retry_attempts, rt_tasks, rt_i, rt_attempt, rt_pc, rt_state>>

VARIABLES
    \* ---- DownloadProgressTable during a parallel run (utils/progress.py 316-393) ----
    pt_tasks,            \* basename of local_path of each task of the execution list
    pt_max_workers,      \* max_concurrent_downloads
    pt_pc,               \* "adding", "running", "finished"
    pt_added,            \* tasks passed to add_download so far
    pt_downloads,        \* DownloadProgressTable.downloads: filename -> status
    pt_total_count,      \* DownloadProgressTable.total_count
    pt_completed_count,  \* DownloadProgressTable.completed_count
    pt_worker            \* per task: position of download_with_progress and its result

gvars == <<pt_tasks, pt_max_workers, pt_pc, pt_added, pt_downloads,
           pt_total_count, pt_completed_count, pt_worker>>

VARIABLES
    \* ---- cmd_deploy (cli.py 1293-1375) ----
    dp_args,             \* skip_auth, skip_fetch, skip_download, auto
    dp_pc,               \* the step cmd_deploy is at
    dp_steps,            \* per step: "not_run", "skipped", "ok", "failed"
    dp_failed_downloads, \* download_stats['failed_downloads'] of the download step
    dp_content_manager,  \* self.content_manager is set
    dp_exit              \* return value of cmd_deploy (-1 while it runs)

yvars == <<dp_args, dp_pc, dp_steps, dp_failed_downloads, dp_content_manager, dp_exit>>

vars == <<tvars, dvars, evars, svars, cvars, pvars, lvars, mvars, avars, rvars, gvars, yvars>>

(***************************************************************************)
(* Files and devices                                                       *)
(***************************************************************************)
Roles == {"master", "slave"}

NEW_DATA_JSON == [cls |-> "manifest", id |-> 0]
CREDENTIAL_JSON == [cls |-> "credential", id |-> 0]
LowResFiles == {[cls |-> "lowres", id |-> i] : i \in 1..MaxVideoId}
HighResFiles == {[cls |-> "highres", id |-> i] : i \in 1..MaxVideoId}
VideoFiles == LowResFiles \cup HighResFiles
ImageFiles == {[cls |-> "image", id |-> i] : i \in 1..MaxImageId}
AllFiles == {NEW_DATA_JSON, CREDENTIAL_JSON} \cup VideoFiles \cup ImageFiles

Classes == {"json", "videos", "images"}

\* outcome of one `adb push`: exit status 0, non-zero exit status, TimeoutExpired
PushOutcomes == {"ok", "fail", "timeout"}

PendingEntry == [status |-> "pending", current |-> 0, total |-> 0]
AbsentEntry == [status |-> "absent", current |-> 0, total |-> 0]

\* TransferProgress.add_device
add_device == [c \in Classes |-> PendingEntry]

\* TransferProgress.update_json_status: ignored for an untracked serial
update_json_status(p, d, status) ==
    IF p[d]["json"].status = "absent" THEN p
    ELSE [p EXCEPT ![d]["json"].status = status]

\* TransferProgress.update_videos_progress
update_videos_progress(p, d, current, total, status) ==
    IF p[d]["videos"].status = "absent" THEN p
    ELSE [p EXCEPT ![d]["videos"] = [status |-> status, current |-> current, total |-> total]]

\* TransferProgress.update_images_progress
update_images_progress(p, d, current, total, status) ==
    IF p[d]["images"].status = "absent" THEN p
    ELSE [p EXCEPT ![d]["images"] = [status |-> status, current |-> current, total |-> total]]

(***************************************************************************)
(* Building the LocalFileSet (cli.py 1016-1039, 1177-1197)                 *)
(***************************************************************************)
\* the video files of the role: lowres_*.mp4 for master, highres_*.mp4 for slave
RoleVideos(d, fs) ==
    IF d = "master" THEN {f \in fs.videos : f.cls = "lowres"}
    ELSE {f \in fs.videos : f.cls = "highres"}

BuildLocalFiles(d, a, fs) ==
    (IF ~a.videos_only
        THEN {NEW_DATA_JSON} \cup
             (IF d = "master" /\ fs.credential THEN {CREDENTIAL_JSON} ELSE {})
        ELSE {})
    \cup (IF ~a.json_only /\ fs.videos_dir THEN RoleVideos(d, fs) ELSE {})
    \cup (IF ~a.json_only /\ fs.images_dir THEN fs.images ELSE {})

(***************************************************************************)
(* Conflict Detector.  ADBManager.check_transfer_conflicts is called by    *)
(* cli.py (1044, 1202) but is not part of the sources; it is modelled      *)
(* from section 4.2 of the specification: a local file is a conflict iff a *)
(* file of the same name exists in its target directory, whatever its size.*)
(***************************************************************************)
LocalSize == 1

\* mutant of check_transfer_conflicts: a remote file of equal size is not
\* reported as a conflict
check_transfer_conflicts_Mut(remoteSizes, localFiles) ==
    [safe_files |-> {f \in localFiles : remoteSizes[f] \in {0, LocalSize}},
     conflicts  |-> {f \in localFiles : remoteSizes[f] \notin {0, LocalSize}}]

check_transfer_conflicts(remoteSizes, localFiles) ==
    [safe_files |-> {f \in localFiles : remoteSizes[f] = 0},
     conflicts  |-> {f \in localFiles : remoteSizes[f] # 0}]

EmptyCheck == [safe_files |-> {}, conflicts |-> {}]

\* what the device can report for a file: absent (0), present with the size
\* of the local file, present with another size
RemoteSizes == {0, LocalSize, LocalSize + 1}

\* the transfer command only reads the partition, never the sizes: its
\* devices answer absent or present (ConflictSpec covers every size)
RemoteAnswers == {0, LocalSize + 1}

(***************************************************************************)
(* Initial state of the transfer command                                   *)
(***************************************************************************)
ArgsSet == [videos_only : BOOLEAN, json_only : BOOLEAN,
            master_only : BOOLEAN, slave_only : BOOLEAN]

LocalFsSet ==
    {fs \in [credential : BOOLEAN, videos_dir : BOOLEAN, videos : SUBSET VideoFiles,
             images_dir : BOOLEAN, images : SUBSET ImageFiles] :
        /\ (~fs.videos_dir => fs.videos = {})
        /\ (~fs.images_dir => fs.images = {})}

\* config['devices']: master_serial / slave_serial set or empty
ConfigSet == [master : BOOLEAN, slave : BOOLEAN]

TransferInit ==
    /\ args \in ArgsSet
    /\ config \in ConfigSet
    /\ localFs \in LocalFsSet
    /\ pc = "start"
    /\ cur = "none"
    /\ conflict_action_all = "none"
    /\ progress = [d \in Roles |-> [c \in Classes |-> AbsentEntry]]
    /\ local_files_to_transfer = [d \in Roles |-> {}]
    /\ conflict_check = [d \in Roles |-> EmptyCheck]
    /\ files_to_skip = [d \in Roles |-> {}]
    /\ resolution = [d \in Roles |-> "none"]
    /\ remote = [d \in Roles |-> [f \in AllFiles |-> 0]]
    /\ checks = [d \in Roles |-> 0]
    /\ prompts = [d \in Roles |-> 0]
    /\ invalid_inputs = FALSE
    /\ dirs_created = [d \in Roles |-> 0]
    /\ pushLog = <<>>
    /\ success = TRUE
    /\ dev_success = TRUE
    /\ exit_code = -1

\* a device is processed iff its serial is configured and the other role's
\* "-only" flag is not set (cli.py 891-894, 900, 907)
Processed(d) ==
    IF d = "master" THEN config.master /\ ~args.slave_only
    ELSE config.slave /\ ~args.master_only

(***************************************************************************)
(* cmd_transfer (cli.py 873-920)                                           *)
(***************************************************************************)
\* preflight, reset of the conflict state, registration of the devices
CmdTransferStart ==
    /\ pc = "start"
    /\ \E passed \in BOOLEAN :
        \* the 'devices' check fails when no serial is configured
        /\ (passed => (config.master \/ config.slave))
        /\ IF ~passed
              THEN /\ exit_code' = 1
                   /\ pc' = "returned"
                   /\ UNCHANGED <<conflict_action_all, progress, success, cur>>
              ELSE /\ conflict_action_all' = "none"
                   /\ progress' = [d \in Roles |->
                         IF Processed(d) THEN add_device ELSE progress[d]]
                   /\ success' = TRUE
                   /\ cur' = "master"
                   /\ pc' = "dispatch"
                   /\ UNCHANGED exit_code
    /\ UNCHANGED <<args, config, localFs, local_files_to_transfer, conflict_check,
                   files_to_skip, resolution, remote, checks, prompts,
                   invalid_inputs, dirs_created, pushLog, dev_success>>
    /\ UNCHANGED <<dvars, evars, svars, cvars, pvars, lvars, mvars, avars, rvars, gvars, yvars>>

\* `if master_serial and not args.slave_only:` / `if slave_serial and not args.master_only:`
Dispatch ==
    /\ pc = "dispatch"
    /\ IF cur = "done"
          THEN /\ pc' = "returned"
               /\ exit_code' = IF success THEN 0 ELSE 1
               /\ UNCHANGED <<cur, dev_success>>
          ELSE /\ IF Processed(cur)
                     THEN /\ pc' = "mkdir"
                          /\ dev_success' = TRUE
                          /\ UNCHANGED cur
                     ELSE /\ cur' = IF cur = "master" THEN "slave" ELSE "done"
                          /\ UNCHANGED <<pc, dev_success>>
               /\ UNCHANGED exit_code
    /\ UNCHANGED <<args, config, localFs, conflict_action_all, progress,
                   local_files_to_transfer, conflict_check, files_to_skip,
                   resolution, remote, checks, prompts, invalid_inputs,
                   dirs_created, pushLog, success>>
    /\ UNCHANGED <<dvars, evars, svars, cvars, pvars, lvars, mvars, avars, rvars, gvars, yvars>>

\* `return False` / `return success` of _transfer_to_master / _transfer_to_slave
\* followed by `success &= ...` in cmd_transfer
ReturnFromDevice(result) ==
    /\ success' = (success /\ result)
    /\ cur' = IF cur = "master" THEN "slave" ELSE "done"
    /\ pc' = "dispatch"

(***************************************************************************)
(* _transfer_to_master / _transfer_to_slave (cli.py 1002-1161, 1163-1291)  *)
(***************************************************************************)
\* number of directories of create_eldersvr_structure (root, Video, Image)
NumDirectories == 3

\* mutant of StructureCreated: the root directory alone is taken for the whole
StructureCreated_Mut(k) == k >= 1

\* create_eldersvr_structure returns True only after the loop over the three
\* directories ran to its end (adb_manager.py 332-347); k directories were
\* created before the first failure or timeout
StructureCreated(k) == k = NumDirectories

\* create_eldersvr_structure: mkdir -p of the three directories in order; the
\* first failure or timeout returns False and `_transfer_to_*` returns False
CreateStructure ==
    /\ pc = "mkdir"
    /\ \E k \in 0..NumDirectories :
        /\ dirs_created' = [dirs_created EXCEPT ![cur] = k]
        /\ IF ~StructureCreated(k)
              THEN ReturnFromDevice(FALSE)
              ELSE /\ pc' = "build"
                   /\ UNCHANGED <<success, cur>>
    /\ UNCHANGED <<args, config, localFs, conflict_action_all, progress,
                   local_files_to_transfer, conflict_check, files_to_skip,
                   resolution, remote, checks, prompts, invalid_inputs,
                   pushLog, dev_success, exit_code>>
    /\ UNCHANGED <<dvars, evars, svars, cvars, pvars, lvars, mvars, avars, rvars, gvars, yvars>>

\* cli.py 1016-1056 / 1177-1214: build local_files_to_transfer, run the
\* conflict check once over the whole set, present the conflict set
BuildAndCheck ==
    /\ pc = "build"
    /\ LET lf == BuildLocalFiles(cur, args, localFs) IN
        /\ local_files_to_transfer' = [local_files_to_transfer EXCEPT ![cur] = lf]
        /\ files_to_skip' = [files_to_skip EXCEPT ![cur] = {}]
        /\ IF lf = {}
              THEN /\ pc' = "json"
                   /\ UNCHANGED <<remote, conflict_check, checks, prompts, invalid_inputs>>
              ELSE \E r \in [lf -> RemoteAnswers] :
                   LET sizes == [f \in AllFiles |-> IF f \in lf THEN r[f] ELSE 0]
                       cc == check_transfer_conflicts(sizes, lf) IN
                   /\ remote' = [remote EXCEPT ![cur] = sizes]
                   /\ conflict_check' = [conflict_check EXCEPT ![cur] = cc]
                   /\ checks' = [checks EXCEPT ![cur] = @ + 1]
                   /\ IF cc.conflicts # {}
                         THEN /\ prompts' = [prompts EXCEPT ![cur] = @ + 1]
                              /\ invalid_inputs' = FALSE
                              /\ pc' = "prompt"
                         ELSE /\ pc' = "json"
                              /\ UNCHANGED <<prompts, invalid_inputs>>
    /\ UNCHANGED <<args, config, localFs, cur, conflict_action_all, progress,
                   resolution, dirs_created, pushLog, success, dev_success, exit_code>>
    /\ UNCHANGED <<dvars, evars, svars, cvars, pvars, lvars, mvars, avars, rvars, gvars, yvars>>

Choices == {"sa", "oa", "c"}

\* cli.py 1061-1070: the skip set fixed by the answer
SkipSetFor(choice, conflicts) ==
    IF choice = "sa" THEN conflicts ELSE {}

\* cli.py 1062, 1068: _conflict_action_all after the answer
ActionAllFor(choice, old) ==
    CASE choice = "sa" -> "skip_all"
      [] choice = "oa" -> "override_all"
      [] OTHER -> old

ResolutionName(choice) ==
    CASE choice = "sa" -> "skip_all"
      [] choice = "oa" -> "override_all"
      [] OTHER -> "cancel"

\* mutant of PcAfterAnswer: after "skip all" the question is asked again
PcAfterAnswer_Mut(choice) ==
    IF choice = "sa" THEN "prompt" ELSE "json"

\* cli.py 1066, 1070: `break` leaves the prompt loop for the json step
PcAfterAnswer(choice) ==
    IF choice \in {"sa", "oa"} THEN "json" ELSE "prompt"

\* cli.py 1058-1075 / 1216-1233: one answer for the whole conflict set
ResolveConflicts ==
    /\ pc = "prompt"
    /\ \E choice \in Choices :
        /\ resolution' = [resolution EXCEPT ![cur] = ResolutionName(choice)]
        /\ conflict_action_all' = ActionAllFor(choice, conflict_action_all)
        /\ files_to_skip' = [files_to_skip EXCEPT ![cur] =
                                SkipSetFor(choice, conflict_check[cur].conflicts)]
        /\ IF choice = "c"
              THEN ReturnFromDevice(FALSE)
              ELSE /\ pc' = PcAfterAnswer(choice)
                   /\ UNCHANGED <<success, cur>>
    /\ UNCHANGED <<args, config, localFs, progress, local_files_to_transfer,
                   conflict_check, remote, checks, prompts, invalid_inputs,
                   dirs_created, pushLog, dev_success, exit_code>>
    /\ UNCHANGED <<dvars, evars, svars, cvars, pvars, lvars, mvars, avars, rvars, gvars, yvars>>

\* cli.py 1074-1075 / 1232-1233: any other answer repeats the question
InvalidChoice ==
    /\ pc = "prompt"
    /\ invalid_inputs' = TRUE
    /\ UNCHANGED <<args, config, localFs, pc, cur, conflict_action_all, progress,
                   local_files_to_transfer, conflict_check, files_to_skip, resolution,
                   remote, checks, prompts, dirs_created, pushLog, success,
                   dev_success, exit_code>>
    /\ UNCHANGED <<dvars, evars, svars, cvars, pvars, lvars, mvars, avars, rvars, gvars, yvars>>

\* push_json / push_credential_json: True iff the push exits with status 0
\* (a timeout returns False)
PushResult(outcome) == outcome = "ok"

PushEntry(d, f, outcome) == [dev |-> d, file |-> f, outcome |-> outcome]

\* mutant of JsonClassStatus: the credential push is not taken into account
JsonClassStatus_Mut(json_transferred, credential_transferred) ==
    IF json_transferred THEN "completed" ELSE "failed"

\* cli.py 1101-1106: status of the json class on the master
JsonClassStatus(json_transferred, credential_transferred) ==
    IF json_transferred /\ credential_transferred THEN "completed" ELSE "failed"

\* cli.py 1077-1106
JsonStepMaster ==
    /\ pc = "json"
    /\ cur = "master"
    /\ IF args.videos_only
          THEN UNCHANGED <<progress, pushLog, dev_success>>
          ELSE \E oj \in PushOutcomes, oc \in PushOutcomes :
               LET pushJ == NEW_DATA_JSON \notin files_to_skip[cur]
                   pushC == localFs.credential /\ CREDENTIAL_JSON \notin files_to_skip[cur]
                   json_transferred == IF pushJ THEN PushResult(oj) ELSE TRUE
                   credential_transferred == IF pushC THEN PushResult(oc) ELSE TRUE
                   status == JsonClassStatus(json_transferred, credential_transferred)
               IN
               /\ pushLog' = pushLog
                     \o (IF pushJ THEN <<PushEntry(cur, NEW_DATA_JSON, oj)>> ELSE <<>>)
                     \o (IF pushC THEN <<PushEntry(cur, CREDENTIAL_JSON, oc)>> ELSE <<>>)
               /\ progress' = update_json_status(progress, cur, status)
               /\ dev_success' = (dev_success /\ status = "completed")
    /\ pc' = "videos"
    /\ UNCHANGED <<args, config, localFs, cur, conflict_action_all,
                   local_files_to_transfer, conflict_check, files_to_skip, resolution,
                   remote, checks, prompts, invalid_inputs, dirs_created, success,
                   exit_code>>
    /\ UNCHANGED <<dvars, evars, svars, cvars, pvars, lvars, mvars, avars, rvars, gvars, yvars>>

\* cli.py 1238-1243: status of the json class on the slave
SlaveJsonStatus(pushed_ok) ==
    IF pushed_ok THEN "completed" ELSE "failed"

\* cli.py 1235-1243: push_json is called whatever files_to_skip holds
JsonStepSlave ==
    /\ pc = "json"
    /\ cur = "slave"
    /\ IF args.videos_only
          THEN UNCHANGED <<progress, pushLog, dev_success>>
          ELSE \E oj \in PushOutcomes :
               LET status == SlaveJsonStatus(PushResult(oj)) IN
               /\ pushLog' = Append(pushLog, PushEntry(cur, NEW_DATA_JSON, oj))
               /\ progress' = update_json_status(progress, cur, status)
               /\ dev_success' = (dev_success /\ status = "completed")
    /\ pc' = "videos"
    /\ UNCHANGED <<args, config, localFs, cur, conflict_action_all,
                   local_files_to_transfer, conflict_check, files_to_skip, resolution,
                   remote, checks, prompts, invalid_inputs, dirs_created, success,
                   exit_code>>
    /\ UNCHANGED <<dvars, evars, svars, cvars, pvars, lvars, mvars, avars, rvars, gvars, yvars>>

\* positional parameters after `serial` that the callee accepts and that the
\* call site passes
PushVideosFilteredParams == 3
PushVideosFilteredCallArgs == 5
PushImagesParams == 2
PushImagesCallArgs == 4

\* a Python call with more positional arguments than parameters raises TypeError
RaisesTypeError(given, accepted) == given > accepted

\* cli.py 1113 (master) / 1248 (slave): the list handed to push_videos_filtered
VideoFileList(d, fs, skip) ==
    IF d = "master" THEN RoleVideos(d, fs) \ skip ELSE RoleVideos(d, fs)

\* cli.py 1108-1129 / 1245-1259: the class is set in_progress, then the call
\* push_videos_filtered(serial, videos_dir, files, callback, None, files_to_skip)
\* raises TypeError, which leaves _transfer_to_* and is caught in cmd_transfer
VideosStep ==
    /\ pc = "videos"
    /\ IF ~args.json_only /\ localFs.videos_dir
          THEN /\ progress' = update_videos_progress(progress, cur, 0,
                      Cardinality(VideoFileList(cur, localFs, files_to_skip[cur])),
                      "in_progress")
               /\ RaisesTypeError(PushVideosFilteredCallArgs, PushVideosFilteredParams)
               /\ pc' = "raised"
          ELSE /\ pc' = "images"
               /\ UNCHANGED progress
    /\ UNCHANGED <<args, config, localFs, cur, conflict_action_all,
                   local_files_to_transfer, conflict_check, files_to_skip, resolution,
                   remote, checks, prompts, invalid_inputs, dirs_created, pushLog,
                   success, dev_success, exit_code>>
    /\ UNCHANGED <<dvars, evars, svars, cvars, pvars, lvars, mvars, avars, rvars, gvars, yvars>>

\* cli.py 1139-1151 / 1269-1281: likewise for
\* push_images(serial, images_dir, callback, None, files_to_skip)
ImagesStep ==
    /\ pc = "images"
    /\ IF ~args.json_only /\ localFs.images_dir
          THEN /\ progress' = update_images_progress(progress, cur, 0,
                      Cardinality(localFs.images), "in_progress")
               /\ RaisesTypeError(PushImagesCallArgs, PushImagesParams)
               /\ pc' = "raised"
               /\ UNCHANGED <<success, cur>>
          ELSE /\ ReturnFromDevice(dev_success)
               /\ UNCHANGED progress
    /\ UNCHANGED <<args, config, localFs, conflict_action_all,
                   local_files_to_transfer, conflict_check, files_to_skip, resolution,
                   remote, checks, prompts, invalid_inputs, dirs_created, pushLog,
                   dev_success, exit_code>>
    /\ UNCHANGED <<dvars, evars, svars, cvars, pvars, lvars, mvars, avars, rvars, gvars, yvars>>

\* cli.py 918-920: `except Exception` of cmd_transfer
TransferFailed ==
    /\ pc = "raised"
    /\ exit_code' = 1
    /\ pc' = "returned"
    /\ UNCHANGED <<args, config, localFs, cur, conflict_action_all, progress,
                   local_files_to_transfer, conflict_check, files_to_skip, resolution,
                   remote, checks, prompts, invalid_inputs, dirs_created, pushLog,
                   success, dev_success>>
    /\ UNCHANGED <<dvars, evars, svars, cvars, pvars, lvars, mvars, avars, rvars, gvars, yvars>>

(***************************************************************************)
(* Subsystems that are not running in a specification stay idle            *)
(***************************************************************************)
PreflightIdle ==
    /\ pf_command = "none"
    /\ pf_checks = {}
    /\ pf_facts = [config_issues |-> FALSE, api_reachable |-> FALSE,
                   token_valid |-> FALSE, data |-> "missing",
                   master_serial |-> FALSE, slave_serial |-> FALSE,
                   master_connected |-> FALSE, slave_connected |-> FALSE,
                   adb_available |-> FALSE, skip_auth |-> FALSE]
    /\ pf_pc = "idle"
    /\ all_passed = TRUE
    /\ pf_calls = <<>>
    /\ pf_exit = -1

PushLoopIdle ==
    /\ pl_kind = "none"
    /\ pl_files = <<>>
    /\ pl_idx = 0
    /\ pl_pc = "idle"
    /\ success_count = 0
    /\ pl_polls = 0
    /\ pl_started = {}
    /\ pl_sink = <<>>
    /\ pl_entry = AbsentEntry
    /\ pl_result = <<>>

NoRootCall == [serial |-> "none", value |-> FALSE, commands |-> 0, repeated |-> FALSE]

ManagerIdle ==
    /\ m_op = "none"
    /\ m_serial = "none"
    /\ resolved = [s \in Roles |-> ""]
    /\ root_returned = [s \in Roles |-> {}]
    /\ root_enabled = [s \in Roles |-> FALSE]
    /\ root_call = NoRootCall

NoFile == [state |-> "absent", token |-> "none", user_info |-> "none",
           company_info |-> "none"]

NoAnswer == [kind |-> "none", status |-> 0]

NoValidation == [valid |-> FALSE, message |-> "none", contacted |-> FALSE,
                 had_token |-> FALSE]

AuthIdle ==
    /\ auth_token = "none"
    /\ user_info = "none"
    /\ company_info = "none"
    /\ token_file = NoFile
    /\ a_op = "none"
    /\ auth_ok = FALSE
    /\ vt_answer = NoAnswer
    /\ vt_result = NoValidation

RetryIdle ==
    /\ rt_retry_attempts = 0
    /\ rt_tasks = 0
    /\ rt_i = 0
    /\ rt_attempt = 0
    /\ rt_pc = "idle"
    /\ rt_state = <<>>

\* basenames the manifest's keys and image URLs can end in
TableFileNames == {"a.png", "b.png"}

ProgressIdle ==
    /\ pt_tasks = <<>>
    /\ pt_max_workers = 1
    /\ pt_pc = "idle"
    /\ pt_added = 0
    /\ pt_downloads = [f \in TableFileNames |-> "absent"]
    /\ pt_total_count = 0
    /\ pt_completed_count = 0
    /\ pt_worker = <<>>

\* the steps of cmd_deploy in the order of its code
DeploySteps == <<"preflight", "adb", "auth", "fetch", "download", "detect",
                 "transfer", "verify">>

DeployIdle ==
    /\ dp_args = [skip_auth |-> FALSE, skip_fetch |-> FALSE,
                  skip_download |-> FALSE, auto |-> FALSE]
    /\ dp_pc = "idle"
    /\ dp_steps = [i \in 1..Len(DeploySteps) |-> "not_run"]
    /\ dp_failed_downloads = 0
    /\ dp_content_manager = FALSE
    /\ dp_exit = -1

TransferIdle ==
    /\ args = [videos_only |-> FALSE, json_only |-> FALSE,
               master_only |-> FALSE, slave_only |-> FALSE]
    /\ config = [master |-> FALSE, slave |-> FALSE]
    /\ localFs = [credential |-> FALSE, videos_dir |-> FALSE, videos |-> {},
                  images_dir |-> FALSE, images |-> {}]
    /\ pc = "idle"
    /\ cur = "none"
    /\ conflict_action_all = "none"
    /\ progress = [d \in Roles |-> [c \in Classes |-> AbsentEntry]]
    /\ local_files_to_transfer = [d \in Roles |-> {}]
    /\ conflict_check = [d \in Roles |-> EmptyCheck]
    /\ files_to_skip = [d \in Roles |-> {}]
    /\ resolution = [d \in Roles |-> "none"]
    /\ remote = [d \in Roles |-> [f \in AllFiles |-> 0]]
    /\ checks = [d \in Roles |-> 0]
    /\ prompts = [d \in Roles |-> 0]
    /\ invalid_inputs = FALSE
    /\ dirs_created = [d \in Roles |-> 0]
    /\ pushLog = <<>>
    /\ success = TRUE
    /\ dev_success = TRUE
    /\ exit_code = -1

DownloadIdle ==
    /\ manifest = [videos |-> 0, tags |-> <<>>]
    /\ dl_args = [quality |-> "both", images_only |-> FALSE, parallel |-> FALSE]
    /\ dl_config = [max_concurrent_downloads |-> 1, retry_attempts |-> 1]
    /\ existing = {}
    /\ download_tasks = <<>>
    /\ tasks_to_download = <<>>
    /\ skipped_files = <<>>
    /\ download_stats = <<>>
    /\ dl_pc = "idle"
    /\ prefilter_choice = "none"
    /\ task_state = <<>>
    /\ seq_i = 0

EquivIdle ==
    /\ eq_tasks = <<>>
    /\ eq_outcomes = <<>>
    /\ eq_retry = 0
    /\ eq_seq = [returned |-> FALSE, stats |-> <<>>]
    /\ eq_par = [returned |-> FALSE, stats |-> <<>>]
    /\ eq_pc = [seq |-> TRUE, par |-> TRUE]

ConflictIdle ==
    /\ cf_local = {}
    /\ cf_remote = <<>>
    /\ cf_report = EmptyCheck
    /\ cf_pc = "idle"

StorageIdle ==
    /\ eldersvr_path = ""
    /\ video_path = ""
    /\ image_path = ""
    /\ device_root_status = <<>>
    /\ s_serial = "none"
    /\ dev_facts = <<>>
    /\ primary_state = <<>>
    /\ s_pc = "idle"
    /\ s_fallback_i = 0
    /\ s_probes = <<>>
    /\ s_result = FALSE

(***************************************************************************)
(* Spec: the transfer command                                              *)
(***************************************************************************)
Init == TransferInit /\ DownloadIdle /\ EquivIdle /\ StorageIdle /\ ConflictIdle /\ PreflightIdle /\ PushLoopIdle /\ ManagerIdle /\ AuthIdle /\ RetryIdle /\ ProgressIdle /\ DeployIdle

Next ==
    \/ CmdTransferStart
    \/ Dispatch
    \/ CreateStructure
    \/ BuildAndCheck
    \/ ResolveConflicts
    \/ InvalidChoice
    \/ JsonStepMaster
    \/ JsonStepSlave
    \/ VideosStep
    \/ ImagesStep
    \/ TransferFailed

Spec == Init /\ [][Next]_vars

(***************************************************************************)
(* Claims about the transfer command                                       *)
(***************************************************************************)
PushedOk(d, f) ==
    \E i \in 1..Len(pushLog) :
        pushLog[i].dev = d /\ pushLog[i].file = f /\ pushLog[i].outcome = "ok"

PushedTo(d, f) ==
    \E i \in 1..Len(pushLog) : pushLog[i].dev = d /\ pushLog[i].file = f

\* the files of a class in the scope of a device: the part of its LocalFileSet
\* that belongs to the class
ClassOf(f) ==
    CASE f.cls \in {"manifest", "credential"} -> "json"
      [] f.cls \in {"lowres", "highres"} -> "videos"
      [] OTHER -> "images"

Scope(d, c) == {f \in local_files_to_transfer[d] : ClassOf(f) = c}

\* C1: for every device and every asset class, in every reachable state, a
\* class whose status is `completed` has every file of its scope on that
\* device either pushed with a successful exit status or in the skip set
\* fixed by the device's conflict resolution.
C1_CompletedMeansAllDone ==
    \A d \in Roles : \A c \in Classes :
        progress[d][c].status = "completed" =>
            \A f \in Scope(d, c) : PushedOk(d, f) \/ f \in files_to_skip[d]

\* witness of C1: the json class of the master is completed with the
\* manifest skipped by the resolution and the credential file pushed
C1_Witness ==
    /\ progress["master"]["json"].status = "completed"
    /\ NEW_DATA_JSON \in files_to_skip["master"]
    /\ CREDENTIAL_JSON \in Scope("master", "json")
    /\ PushedOk("master", CREDENTIAL_JSON)

\* C2: after SkipAll has been chosen for a device, no file reported as a
\* conflict for that device is pushed to it, on the master and on the slave.
C2_SkipAllPushesNoConflict ==
    \A d \in Roles :
        resolution[d] = "skip_all" =>
            \A f \in conflict_check[d].conflicts : ~PushedTo(d, f)

\* C8: the conflict check runs once per device, over the whole LocalFileSet
\* and before any push to the device; at most one resolution is requested
\* per device; once SkipAll is chosen no further prompt occurs for the device.
C8_ResolutionOncePerDevice ==
    /\ [](\A d \in Roles :
            /\ checks[d] <= 1
            /\ prompts[d] <= 1
            /\ (prompts[d] = 1 => checks[d] = 1)
            /\ ((\E f \in AllFiles : PushedTo(d, f)) => checks[d] = 1))
    /\ [][\A d \in Roles :
            resolution[d] = "skip_all" =>
                (/\ prompts'[d] = prompts[d]
                 /\ checks'[d] = checks[d]
                 /\ resolution'[d] = "skip_all"
                 /\ ~(cur' = d /\ pc' = "prompt"))]_vars

\* witness of C8: SkipAll was chosen for the master and a file that does not
\* conflict was pushed afterwards
C8_Witness ==
    /\ resolution["master"] = "skip_all"
    /\ prompts["master"] = 1
    /\ \E f \in AllFiles : PushedTo("master", f)

(***************************************************************************)
(* ConflictSpec: the conflict check over every LocalFileSet the transfer   *)
(* command can build and every device content                              *)
(***************************************************************************)
BuildableFileSets ==
    {BuildLocalFiles(d, a, fs) : d \in Roles, a \in ArgsSet, fs \in LocalFsSet}

ConflictInit ==
    /\ cf_local \in BuildableFileSets \ {{}}
    /\ cf_remote \in [AllFiles -> RemoteSizes]
    /\ \A f \in AllFiles \ cf_local : cf_remote[f] = 0
    /\ cf_report = EmptyCheck
    /\ cf_pc = "start"
    /\ TransferIdle /\ DownloadIdle /\ EquivIdle /\ StorageIdle /\ PreflightIdle /\ PushLoopIdle /\ ManagerIdle /\ AuthIdle /\ RetryIdle /\ ProgressIdle /\ DeployIdle

\* cli.py 1044 / 1202: conflict_check = check_transfer_conflicts(serial, files, role)
CheckConflicts ==
    /\ cf_pc = "start"
    /\ cf_report' = check_transfer_conflicts(cf_remote, cf_local)
    /\ cf_pc' = "checked"
    /\ UNCHANGED <<cf_local, cf_remote>>
    /\ UNCHANGED <<tvars, dvars, evars, svars, pvars, lvars, mvars, avars, rvars, gvars, yvars>>

ConflictNext == CheckConflicts

ConflictSpec == ConflictInit /\ [][ConflictNext]_vars

\* C9: the conflict check partitions the local file set: a file is in
\* `conflicts` iff a file of that name exists on the device, whether or not
\* the sizes are equal, and in `safe_files` otherwise; every local file is in
\* exactly one of the two lists.
C9_ConflictPartition ==
    cf_pc = "checked" =>
        /\ \A f \in cf_local :
            /\ (f \in cf_report.conflicts <=> cf_remote[f] # 0)
            /\ (f \in cf_report.safe_files <=> cf_remote[f] = 0)
        /\ cf_report.conflicts \cap cf_report.safe_files = {}
        /\ cf_report.conflicts \cup cf_report.safe_files = cf_local

\* witness of C9: a conflict of equal size, a conflict of different size and
\* a safe file in the same report
C9_Witness ==
    /\ cf_pc = "checked"
    /\ \E f \in cf_report.conflicts : cf_remote[f] = LocalSize
    /\ \E f \in cf_report.conflicts : cf_remote[f] # LocalSize
    /\ cf_report.safe_files # {}

(***************************************************************************)
(* Download engine: task expansion (download_all_assets,                   *)
(* download_images_only)                                                   *)
(***************************************************************************)
MaxVideos == 2
MaxTags == 2
MaxTasks == 3
MaxWorkers == 2
MaxRetry == 1

Qualities == {"high", "low", "both"}

\* a tag of new_data.json: "imageUrl" holds a URL, holds "", or is not a key
TagImageUrls == {"url", "empty", "missing"}

SeqsUpTo(S, n) == UNION {[1..k -> S] : k \in 0..n}

Range(sq) == {sq[i] : i \in 1..Len(sq)}

\* new_data.json: videos 1..videos, each with fileUrl, fileUrlLow, thumbnailUrl
Manifests == [videos : 0..MaxVideos, tags : SeqsUpTo(TagImageUrls, MaxTags)]

DownloadArgs ==
    {a \in [quality : Qualities, images_only : BOOLEAN, parallel : BOOLEAN] :
        a.images_only => a.quality = "both"}

\* a download task; (file_type, id) stands for its url and local_path
Task(ft, id) == [file_type |-> ft, id |-> id]

VideoTasks(v, quality) ==
    (IF quality \in {"high", "both"} THEN <<Task("videos_high", v)>> ELSE <<>>)
    \o (IF quality \in {"low", "both"} THEN <<Task("videos_low", v)>> ELSE <<>>)
    \o <<Task("thumbnails", v)>>

RECURSIVE AllVideoTasks(_, _, _)
AllVideoTasks(v, n, quality) ==
    IF v > n THEN <<>>
    ELSE VideoTasks(v, quality) \o AllVideoTasks(v + 1, n, quality)

RECURSIVE ThumbnailTasks(_, _)
ThumbnailTasks(v, n) ==
    IF v > n THEN <<>>
    ELSE <<Task("thumbnails", v)>> \o ThumbnailTasks(v + 1, n)

HasImageUrl_Mut(tag) == tag # "missing"

\* `"imageUrl" in tag and tag["imageUrl"]`
HasImageUrl(tag) == tag = "url"

RECURSIVE TagTasks(_, _)
TagTasks(tags, j) ==
    IF j > Len(tags) THEN <<>>
    ELSE (IF HasImageUrl(tags[j]) THEN <<Task("tag_images", j)>> ELSE <<>>)
         \o TagTasks(tags, j + 1)

ExpandAllAssets(data, quality) ==
    AllVideoTasks(1, data.videos, quality) \o TagTasks(data.tags, 1)

ExpandImagesOnly(data) ==
    ThumbnailTasks(1, data.videos) \o TagTasks(data.tags, 1)

ExpandTasks(data, a) ==
    IF a.images_only THEN ExpandImagesOnly(data)
    ELSE ExpandAllAssets(data, a.quality)

StatKeys(images_only) ==
    {"thumbnails", "tag_images", "failed_downloads", "total_files",
     "completed_files", "skipped_files"}
    \cup (IF images_only THEN {} ELSE {"videos_high", "videos_low"})

ZeroStats(images_only) == [k \in StatKeys(images_only) |-> 0]

\* download_all_assets / download_images_only up to the end of the expansion
PrepareTasks ==
    /\ dl_pc = "start"
    /\ download_stats' = ZeroStats(dl_args.images_only)
    /\ download_tasks' = ExpandTasks(manifest, dl_args)
    /\ dl_pc' = "expanded"
    /\ UNCHANGED <<manifest, dl_args, dl_config, existing, tasks_to_download,
                   skipped_files, prefilter_choice, task_state, seq_i>>
    /\ UNCHANGED <<tvars, evars, svars, cvars, pvars, lvars, mvars, avars, rvars, gvars, yvars>>

ExpandInit ==
    /\ manifest \in Manifests
    /\ dl_args \in DownloadArgs
    /\ dl_config = [max_concurrent_downloads |-> 1, retry_attempts |-> 1]
    /\ existing = {}
    /\ download_tasks = <<>>
    /\ tasks_to_download = <<>>
    /\ skipped_files = <<>>
    /\ download_stats = <<>>
    /\ dl_pc = "start"
    /\ prefilter_choice = "none"
    /\ task_state = <<>>
    /\ seq_i = 0
    /\ TransferIdle /\ EquivIdle /\ StorageIdle /\ ConflictIdle /\ PreflightIdle /\ PushLoopIdle /\ ManagerIdle /\ AuthIdle /\ RetryIdle /\ ProgressIdle /\ DeployIdle

ExpandNext == PrepareTasks

ExpandSpec == ExpandInit /\ [][ExpandNext]_vars

TasksOfType(tasks, ft) == {i \in 1..Len(tasks) : tasks[i].file_type = ft}

TagsWithImage(tags) == {j \in 1..Len(tags) : tags[j] = "url"}

\* C4: with quality `both`, download_all_assets expands exactly 3N + T tasks,
\* one high-res, one low-res and one thumbnail task per video, where N is the
\* number of videos and T the number of tags with a non-empty image URL.
C4_ExpansionCount ==
    (dl_pc = "expanded" /\ ~dl_args.images_only /\ dl_args.quality = "both") =>
        /\ Len(download_tasks)
             = 3 * manifest.videos + Cardinality(TagsWithImage(manifest.tags))
        /\ \A v \in 1..manifest.videos :
             \A ft \in {"videos_high", "videos_low", "thumbnails"} :
                Cardinality({i \in TasksOfType(download_tasks, ft) :
                               download_tasks[i].id = v}) = 1
        /\ Cardinality(TasksOfType(download_tasks, "tag_images"))
             = Cardinality(TagsWithImage(manifest.tags))

C4_Witness ==
    /\ dl_pc = "expanded"
    /\ ~dl_args.images_only /\ dl_args.quality = "both"
    /\ manifest.videos = MaxVideos
    /\ Len(manifest.tags) = MaxTags
    /\ Cardinality(TagsWithImage(manifest.tags)) = 1
    /\ Len(download_tasks) = 3 * MaxVideos + 1

(***************************************************************************)
(* Download engine: pre-filter, sequential loop, worker pool               *)
(***************************************************************************)
PrefilterChoices == {"o", "s", "c"}

check_existing_files_Mut(tasks, exist, choice) ==
    [tasks |-> tasks, skipped |-> <<>>]

\* returns (tasks_to_download, skipped_files); `choice` is the valid answer
\* that ends the prompt loop, read only when some local_path exists
check_existing_files(tasks, exist, choice) ==
    LET to_download == SelectSeq(tasks, LAMBDA t : t \notin exist)
    IN  IF \E i \in 1..Len(tasks) : tasks[i] \in exist
        THEN CASE choice = "o" -> [tasks |-> tasks, skipped |-> <<>>]
               [] choice = "s" ->
                    [tasks |-> to_download,
                     skipped |-> SelectSeq(tasks,
                                   LAMBDA t : t \notin Range(to_download))]
               [] OTHER -> [tasks |-> <<>>, skipped |-> <<>>]
        ELSE [tasks |-> tasks, skipped |-> <<>>]

QueuedTask == [status |-> "queued", success |-> FALSE, counted |-> 0]

\* check_existing_files and the lines of download_all_assets /
\* download_images_only that follow it, up to the dispatch
CheckExisting ==
    /\ dl_pc = "expanded"
    /\ \E choice \in (IF \E i \in 1..Len(download_tasks) :
                            download_tasks[i] \in existing
                      THEN PrefilterChoices ELSE {"none"}) :
         LET r == check_existing_files(download_tasks, existing, choice)
         IN  /\ prefilter_choice' = choice
             /\ tasks_to_download' = r.tasks
             /\ skipped_files' = r.skipped
             /\ task_state' = [i \in 1..Len(r.tasks) |-> QueuedTask]
             /\ IF r.tasks = <<>>
                THEN /\ download_stats' =
                          [download_stats EXCEPT
                             !["total_files"] = Len(download_tasks),
                             !["skipped_files"] = Len(r.skipped)]
                     /\ dl_pc' = "returned"
                ELSE /\ download_stats' =
                          [download_stats EXCEPT
                             !["total_files"] = Len(r.tasks),
                             !["skipped_files"] = Len(r.skipped)]
                     /\ dl_pc' = IF dl_args.parallel /\ Len(r.tasks) > 1
                                 THEN "parallel" ELSE "sequential"
    /\ UNCHANGED <<manifest, dl_args, dl_config, existing, download_tasks, seq_i>>
    /\ UNCHANGED <<tvars, evars, svars, cvars, pvars, lvars, mvars, avars, rvars, gvars, yvars>>

\* what one attempt of download_file meets: the file is written; a
\* requests.RequestException / OSError; any other exception (e.g. the
\* ValueError of int() on a malformed Content-Length header)
AttemptOutcomes == {"ok", "transient", "other"}

RECURSIVE download_file_from(_, _, _)
download_file_from(attempt, outs, retry_attempts) ==
    IF attempt >= retry_attempts THEN "fail"
    ELSE CASE outs[attempt + 1] = "ok" -> "ok"
           [] outs[attempt + 1] = "transient" ->
                IF attempt < retry_attempts - 1
                THEN download_file_from(attempt + 1, outs, retry_attempts)
                ELSE "fail"
           [] OTHER -> "raise"

\* "ok": returns True, "fail": returns False, "raise": the exception leaves
download_file(outs, retry_attempts) == download_file_from(0, outs, retry_attempts)

\* the accounting both paths do for one finished task
CountTask(stats, file_type, ok) ==
    LET s1 == [stats EXCEPT !["completed_files"] = @ + 1]
    IN  IF ok THEN [s1 EXCEPT ![file_type] = @ + 1]
        ELSE [s1 EXCEPT !["failed_downloads"] = @ + 1]

\* one iteration of the loop of _download_assets_sequential
SequentialDownload ==
    /\ dl_pc = "sequential"
    /\ seq_i < Len(tasks_to_download)
    /\ \E outs \in [1..dl_config.retry_attempts -> AttemptOutcomes] :
         LET i == seq_i + 1
             r == download_file(outs, dl_config.retry_attempts)
         IN  /\ seq_i' = i
             /\ IF r = "raise"
                THEN /\ dl_pc' = "raised"
                     /\ task_state' = [task_state EXCEPT ![i].status = "raised"]
                     /\ UNCHANGED download_stats
                ELSE /\ download_stats' =
                          CountTask(download_stats,
                                    tasks_to_download[i].file_type, r = "ok")
                     /\ task_state' =
                          [task_state EXCEPT ![i] =
                             [status |-> "counted", success |-> (r = "ok"),
                              counted |-> @.counted + 1]]
                     /\ UNCHANGED dl_pc
    /\ UNCHANGED <<manifest, dl_args, dl_config, existing, download_tasks,
                   tasks_to_download, skipped_files, prefilter_choice>>
    /\ UNCHANGED <<tvars, evars, svars, cvars, pvars, lvars, mvars, avars, rvars, gvars, yvars>>

SequentialReturn ==
    /\ dl_pc = "sequential"
    /\ seq_i = Len(tasks_to_download)
    /\ dl_pc' = "returned"
    /\ UNCHANGED <<manifest, dl_args, dl_config, existing, download_tasks,
                   tasks_to_download, skipped_files, download_stats,
                   prefilter_choice, task_state, seq_i>>
    /\ UNCHANGED <<tvars, evars, svars, cvars, pvars, lvars, mvars, avars, rvars, gvars, yvars>>

Running == {i \in 1..Len(task_state) : task_state[i].status = "running"}

\* mutant of PoolHasIdleThread: the pool starts one thread too many
PoolHasIdleThread_Mut(running, max_workers) == running <= max_workers

\* ThreadPoolExecutor(max_workers=self.max_concurrent_downloads) starts a
\* thread for a queued task only while fewer than max_workers are running
PoolHasIdleThread(running, max_workers) == running < max_workers

\* a pool thread takes the oldest submitted task off the executor's queue
WorkerStart ==
    /\ dl_pc = "parallel"
    /\ PoolHasIdleThread(Cardinality(Running), dl_config.max_concurrent_downloads)
    /\ \E i \in 1..Len(task_state) :
         /\ task_state[i].status = "queued"
         /\ \A j \in 1..(i - 1) : task_state[j].status # "queued"
         /\ task_state' = [task_state EXCEPT ![i].status = "running"]
    /\ UNCHANGED <<manifest, dl_args, dl_config, existing, download_tasks,
                   tasks_to_download, skipped_files, download_stats, dl_pc,
                   prefilter_choice, seq_i>>
    /\ UNCHANGED <<tvars, evars, svars, cvars, pvars, lvars, mvars, avars, rvars, gvars, yvars>>

\* download_with_progress returns: `except Exception` turns a raise into False
WorkerFinish ==
    /\ dl_pc = "parallel"
    /\ \E i \in Running :
         \E outs \in [1..dl_config.retry_attempts -> AttemptOutcomes] :
            LET r == download_file(outs, dl_config.retry_attempts)
            IN  task_state' = [task_state EXCEPT
                                 ![i].status = "done",
                                 ![i].success = (r = "ok")]
    /\ UNCHANGED <<manifest, dl_args, dl_config, existing, download_tasks,
                   tasks_to_download, skipped_files, download_stats, dl_pc,
                   prefilter_choice, seq_i>>
    /\ UNCHANGED <<tvars, evars, svars, cvars, pvars, lvars, mvars, avars, rvars, gvars, yvars>>

\* the as_completed loop takes one finished future, under _download_stats_lock
MainCollect ==
    /\ dl_pc = "parallel"
    /\ \E i \in 1..Len(task_state) :
         /\ task_state[i].status = "done"
         /\ download_stats' =
              CountTask(download_stats, tasks_to_download[i].file_type,
                        task_state[i].success)
         /\ task_state' = [task_state EXCEPT ![i].status = "counted",
                                             ![i].counted = @ + 1]
    /\ UNCHANGED <<manifest, dl_args, dl_config, existing, download_tasks,
                   tasks_to_download, skipped_files, dl_pc, prefilter_choice,
                   seq_i>>
    /\ UNCHANGED <<tvars, evars, svars, cvars, pvars, lvars, mvars, avars, rvars, gvars, yvars>>

ParallelReturn ==
    /\ dl_pc = "parallel"
    /\ \A i \in 1..Len(task_state) : task_state[i].status = "counted"
    /\ dl_pc' = "returned"
    /\ UNCHANGED <<manifest, dl_args, dl_config, existing, download_tasks,
                   tasks_to_download, skipped_files, download_stats,
                   prefilter_choice, task_state, seq_i>>
    /\ UNCHANGED <<tvars, evars, svars, cvars, pvars, lvars, mvars, avars, rvars, gvars, yvars>>

\* the runs take manifests of at most MaxTasks tasks; a tag without image URL
\* adds no task, so every tag of these manifests carries one
DownloadInit ==
    /\ manifest \in Manifests
    /\ \A j \in 1..Len(manifest.tags) : manifest.tags[j] = "url"
    /\ dl_args \in DownloadArgs
    /\ Len(ExpandTasks(manifest, dl_args)) <= MaxTasks
    /\ dl_config \in [max_concurrent_downloads : 1..MaxWorkers,
                      retry_attempts : 0..MaxRetry]
    /\ existing \in SUBSET Range(ExpandTasks(manifest, dl_args))
    /\ download_tasks = <<>>
    /\ tasks_to_download = <<>>
    /\ skipped_files = <<>>
    /\ download_stats = <<>>
    /\ dl_pc = "start"
    /\ prefilter_choice = "none"
    /\ task_state = <<>>
    /\ seq_i = 0
    /\ TransferIdle /\ EquivIdle /\ StorageIdle /\ ConflictIdle /\ PreflightIdle /\ PushLoopIdle /\ ManagerIdle /\ AuthIdle /\ RetryIdle /\ ProgressIdle /\ DeployIdle

DownloadNext ==
    \/ PrepareTasks
    \/ CheckExisting
    \/ SequentialDownload
    \/ SequentialReturn
    \/ WorkerStart
    \/ WorkerFinish
    \/ MainCollect
    \/ ParallelReturn

DownloadSpec == DownloadInit /\ [][DownloadNext]_vars

(***************************************************************************)
(* Download engine: properties                                             *)
(***************************************************************************)
\* positions of the expanded list whose local_path exists at the pre-filter
PreExisting == {i \in 1..Len(download_tasks) : download_tasks[i] \in existing}

PrefilterDone == dl_pc \notin {"idle", "start", "expanded"}

Attempted(t) ==
    \E i \in 1..Len(tasks_to_download) :
        tasks_to_download[i] = t /\ task_state[i].status # "queued"

\* C3 as stated: whatever the pre-filter's outcome, every task whose local
\* path exists is counted in skipped_files and is not in the execution list.
C3_ExistingAlwaysSkipped ==
    PrefilterDone =>
        /\ download_stats["skipped_files"] = Cardinality(PreExisting)
        /\ \A i \in PreExisting :
             /\ download_tasks[i] \notin Range(tasks_to_download)
             /\ ~Attempted(download_tasks[i])

\* C3 amended: the pre-filter asks override / skip / cancel when some local
\* path exists.  On `skip` every pre-existing task is counted in
\* skipped_files and kept out of the execution list; on `override` the
\* execution list is the whole expanded list and skipped_files is 0; on
\* `cancel` nothing is executed and skipped_files is 0.
C3_ExistingSkippedOnSkip ==
    PrefilterDone =>
        /\ prefilter_choice \in {"s", "none"} =>
             /\ download_stats["skipped_files"] = Cardinality(PreExisting)
             /\ \A i \in PreExisting :
                  /\ download_tasks[i] \notin Range(tasks_to_download)
                  /\ ~Attempted(download_tasks[i])
             /\ \A i \in (1..Len(download_tasks)) \ PreExisting :
                  download_tasks[i] \in Range(tasks_to_download)
        /\ prefilter_choice = "o" =>
             /\ tasks_to_download = download_tasks
             /\ download_stats["skipped_files"] = 0
        /\ prefilter_choice = "c" =>
             /\ tasks_to_download = <<>>
             /\ download_stats["skipped_files"] = 0

C3_Witness ==
    /\ dl_pc = "returned"
    /\ prefilter_choice = "s"
    /\ PreExisting # {}
    /\ Len(tasks_to_download) >= 1
    /\ \A i \in 1..Len(task_state) : task_state[i].status = "counted"
    /\ download_stats["skipped_files"] = Cardinality(PreExisting)

CategoryKeys == {"videos_high", "videos_low", "thumbnails", "tag_images"}

RECURSIVE SumOver(_, _)
SumOver(f, keys) ==
    IF keys = {} THEN 0
    ELSE LET k == CHOOSE x \in keys : TRUE
         IN  f[k] + SumOver(f, keys \ {k})

CategorySum(stats) == SumOver(stats, CategoryKeys \cap DOMAIN stats)

RunEnded == dl_pc \in {"returned", "raised"}

\* C5: every task of the execution list is accounted for exactly once, by
\* completed_files and by its own category counter or failed_downloads; at
\* every point completed_files = sum of the category counters +
\* failed_downloads; when all tasks succeed each category counter is the
\* number of tasks of that category and failed_downloads is 0.
C5_EveryTaskAccountedOnce ==
    PrefilterDone =>
        /\ download_stats["completed_files"]
             = CategorySum(download_stats) + download_stats["failed_downloads"]
        /\ \A i \in 1..Len(task_state) : task_state[i].counted <= 1
        /\ download_stats["completed_files"]
             = Cardinality({i \in 1..Len(task_state) : task_state[i].counted = 1})
        /\ RunEnded =>
             \A i \in 1..Len(tasks_to_download) : task_state[i].counted = 1
        /\ (RunEnded /\ \A i \in 1..Len(task_state) : task_state[i].success) =>
             /\ download_stats["failed_downloads"] = 0
             /\ \A k \in CategoryKeys \cap DOMAIN download_stats :
                  download_stats[k]
                    = Cardinality(TasksOfType(tasks_to_download, k))

\* C6: on return total_files is the length of the execution list,
\* skipped_files the number of tasks the pre-filter removed, their sum the
\* number of expanded tasks, and completed_files = total_files.
C6_StatsOnReturn ==
    dl_pc = "returned" =>
        /\ download_stats["total_files"] = Len(tasks_to_download)
        /\ download_stats["skipped_files"]
             = Len(download_tasks) - Len(tasks_to_download)
        /\ download_stats["total_files"] + download_stats["skipped_files"]
             = Len(download_tasks)
        /\ download_stats["completed_files"] = download_stats["total_files"]

(***************************************************************************)
(* EquivSpec: _download_assets_sequential and _download_assets_parallel    *)
(* with max_concurrent_downloads = 1, on the same task list and the same   *)
(* per-attempt network outcomes                                            *)
(***************************************************************************)
\* download_stats as both paths receive it from download_all_assets
StartStats(tasks) ==
    [ZeroStats(FALSE) EXCEPT !["total_files"] = Len(tasks)]

\* the loop of _download_assets_sequential from position i on; an exception
\* of download_file leaves the loop and the function without a return value
RECURSIVE download_assets_sequential(_, _, _, _, _)
download_assets_sequential(tasks, outcomes, retry_attempts, i, stats) ==
    IF i > Len(tasks) THEN [returned |-> TRUE, stats |-> stats]
    ELSE LET r == download_file(outcomes[i], retry_attempts)
         IN  IF r = "raise" THEN [returned |-> FALSE, stats |-> stats]
             ELSE download_assets_sequential(tasks, outcomes, retry_attempts,
                      i + 1, CountTask(stats, tasks[i].file_type, r = "ok"))

\* _download_assets_parallel with a single pool thread: the tasks run in
\* submission order, download_with_progress turns an exception into
\* (False, ...), the as_completed loop counts each future once
RECURSIVE download_assets_parallel(_, _, _, _, _)
download_assets_parallel(tasks, outcomes, retry_attempts, i, stats) ==
    IF i > Len(tasks) THEN [returned |-> TRUE, stats |-> stats]
    ELSE LET r == download_file(outcomes[i], retry_attempts)
         IN  download_assets_parallel(tasks, outcomes, retry_attempts,
                 i + 1, CountTask(stats, tasks[i].file_type, r = "ok"))

TaskLists ==
    {ExpandTasks(m, a) : m \in {x \in Manifests :
                                  \A j \in 1..Len(x.tags) : x.tags[j] = "url"},
                         a \in DownloadArgs}

EquivInit ==
    /\ eq_tasks \in {l \in TaskLists : Len(l) <= MaxTasks}
    /\ eq_retry \in 0..MaxRetry
    /\ eq_outcomes \in [1..Len(eq_tasks) -> [1..eq_retry -> AttemptOutcomes]]
    /\ eq_seq = [returned |-> FALSE, stats |-> <<>>]
    /\ eq_par = [returned |-> FALSE, stats |-> <<>>]
    /\ eq_pc = [seq |-> FALSE, par |-> FALSE]
    /\ TransferIdle /\ DownloadIdle /\ StorageIdle /\ ConflictIdle /\ PreflightIdle /\ PushLoopIdle /\ ManagerIdle /\ AuthIdle /\ RetryIdle /\ ProgressIdle /\ DeployIdle

RunSequential ==
    /\ ~eq_pc.seq
    /\ eq_seq' = download_assets_sequential(eq_tasks, eq_outcomes, eq_retry, 1,
                                            StartStats(eq_tasks))
    /\ eq_pc' = [eq_pc EXCEPT !.seq = TRUE]
    /\ UNCHANGED <<eq_tasks, eq_outcomes, eq_retry, eq_par>>
    /\ UNCHANGED <<tvars, dvars, svars, cvars, pvars, lvars, mvars, avars, rvars, gvars, yvars>>

RunParallel ==
    /\ ~eq_pc.par
    /\ eq_par' = download_assets_parallel(eq_tasks, eq_outcomes, eq_retry, 1,
                                          StartStats(eq_tasks))
    /\ eq_pc' = [eq_pc EXCEPT !.par = TRUE]
    /\ UNCHANGED <<eq_tasks, eq_outcomes, eq_retry, eq_seq>>
    /\ UNCHANGED <<tvars, dvars, svars, cvars, pvars, lvars, mvars, avars, rvars, gvars, yvars>>

EquivNext == RunSequential \/ RunParallel

EquivSpec == EquivInit /\ [][EquivNext]_vars

\* C7: with max_concurrent_downloads = 1 the parallel and the sequential
\* path return identical DownloadStats for every task list and every
\* assignment of per-attempt network outcomes.
C7_ParallelEqualsSequential ==
    (eq_pc.seq /\ eq_pc.par) =>
        /\ eq_seq.returned
        /\ eq_par.returned
        /\ eq_seq.stats = eq_par.stats

(***************************************************************************)
(* StorageSpec: ADBManager.verify_storage_access                           *)
(***************************************************************************)
DefaultDevicePath == "/storage/emulated/0/Android/data/com.q42.eldersvr/files/EldersVR"

\* a device_path set in the configuration
CustomDevicePath == "/sdcard/MyCustomPath"

fallback_paths ==
    << "/storage/emulated/0/Android/data",
       "/storage/emulated/0/Documents/EldersVR",
       "/sdcard/EldersVR",
       "/storage/sdcard0/EldersVR" >>

\* the fallbacks whose path contains "Android/data"
AppScopedFallbacks == {1}

test_path(i) ==
    IF i \in AppScopedFallbacks
    THEN fallback_paths[i] \o "/com.q42.eldersvr/files/EldersVR"
    ELSE fallback_paths[i]

\* `which su` / `su -c id`: no su, su without root, su with uid 0
SuStates == {"none", "denied", "root"}

\* su -c mkdir -p, su -c chmod 777, test -w of _try_root_storage_setup
RootSetupOutcomes == {"mkdir_fails", "chmod_fails", "not_writable", "ok"}

PrimaryStates ==
    {p \in [dir_exists : BOOLEAN, is_writable : BOOLEAN] :
        p.is_writable => p.dir_exists}

StorageInit ==
    /\ eldersvr_path \in {DefaultDevicePath, CustomDevicePath}
    /\ video_path = eldersvr_path \o "/Video"
    /\ image_path = eldersvr_path \o "/Image"
    /\ s_serial \in Roles
    /\ primary_state \in PrimaryStates
    /\ dev_facts \in [su : SuStates, root_setup : RootSetupOutcomes,
                      fallback_ok : [1..Len(fallback_paths) -> BOOLEAN]]
    /\ dev_facts.su # "root" => dev_facts.root_setup = "mkdir_fails"
    \* the first fallback's test path is the default primary path
    /\ (eldersvr_path = test_path(1) /\ primary_state.dir_exists) =>
          dev_facts.fallback_ok[1] = primary_state.is_writable
    /\ device_root_status \in
          {<<>>} \cup {[x \in {s_serial} |-> v] :
                         v \in {FALSE, dev_facts.su = "root"}}
    /\ s_pc = "start"
    /\ s_fallback_i = 0
    /\ s_probes = <<>>
    /\ s_result = FALSE
    /\ TransferIdle /\ DownloadIdle /\ EquivIdle /\ ConflictIdle /\ PreflightIdle /\ PushLoopIdle /\ ManagerIdle /\ AuthIdle /\ RetryIdle /\ ProgressIdle /\ DeployIdle

\* test -d and test -w on the primary path; a timeout of either leaves
\* through the outer `except subprocess.TimeoutExpired`
VerifyPrimary ==
    /\ s_pc = "start"
    /\ s_probes' = Append(s_probes, "primary")
    /\ \E timeout \in BOOLEAN :
         IF timeout
         THEN s_result' = FALSE /\ s_pc' = "returned"
         ELSE IF primary_state.dir_exists /\ primary_state.is_writable
              THEN s_result' = TRUE /\ s_pc' = "returned"
              ELSE s_pc' = "check_root" /\ UNCHANGED s_result
    /\ UNCHANGED <<eldersvr_path, video_path, image_path, device_root_status,
                   s_serial, dev_facts, primary_state, s_fallback_i>>
    /\ UNCHANGED <<tvars, dvars, evars, cvars, pvars, lvars, mvars, avars, rvars, gvars, yvars>>

CachedRoot == s_serial \in DOMAIN device_root_status

SetRootStatus(v) ==
    [x \in DOMAIN device_root_status \cup {s_serial} |->
        IF x = s_serial THEN v ELSE device_root_status[x]]

AfterRootCheck(has_root) ==
    IF has_root THEN s_pc' = "root_setup" /\ UNCHANGED s_fallback_i
    ELSE s_pc' = "fallback" /\ s_fallback_i' = 1

\* check_root_access: the cached answer, else `which su` and `su -c id`
CheckRootAccess ==
    /\ s_pc = "check_root"
    /\ IF CachedRoot
       THEN /\ AfterRootCheck(device_root_status[s_serial])
            /\ UNCHANGED <<device_root_status, s_probes>>
       ELSE /\ s_probes' = Append(s_probes, "root_check")
            /\ \E timeout \in BOOLEAN :
                 LET has_root == ~timeout /\ dev_facts.su = "root"
                 IN  /\ device_root_status' = SetRootStatus(has_root)
                     /\ AfterRootCheck(has_root)
    /\ UNCHANGED <<eldersvr_path, video_path, image_path, s_serial, dev_facts,
                   primary_state, s_result>>
    /\ UNCHANGED <<tvars, dvars, evars, cvars, pvars, lvars, mvars, avars, rvars, gvars, yvars>>

\* _try_root_storage_setup; on failure verify_storage_access goes on to the
\* fallbacks
RootStorageSetup ==
    /\ s_pc = "root_setup"
    /\ s_probes' = Append(s_probes, "root_setup")
    /\ \E timeout \in BOOLEAN :
         IF ~timeout /\ dev_facts.root_setup = "ok"
         THEN s_result' = TRUE /\ s_pc' = "returned" /\ UNCHANGED s_fallback_i
         ELSE s_pc' = "fallback" /\ s_fallback_i' = 1 /\ UNCHANGED s_result
    /\ UNCHANGED <<eldersvr_path, video_path, image_path, device_root_status,
                   s_serial, dev_facts, primary_state>>
    /\ UNCHANGED <<tvars, dvars, evars, cvars, pvars, lvars, mvars, avars, rvars, gvars, yvars>>

\* one iteration of the loop of _try_fallback_paths
TryFallback ==
    /\ s_pc = "fallback"
    /\ s_probes' = Append(s_probes, "fallback")
    /\ \E timeout \in BOOLEAN :
         IF ~timeout /\ dev_facts.fallback_ok[s_fallback_i]
         THEN /\ eldersvr_path' = test_path(s_fallback_i)
              /\ video_path' = eldersvr_path' \o "/Video"
              /\ image_path' = eldersvr_path' \o "/Image"
              /\ s_result' = TRUE
              /\ s_pc' = "returned"
              /\ UNCHANGED s_fallback_i
         ELSE /\ UNCHANGED <<eldersvr_path, video_path, image_path>>
              /\ IF s_fallback_i < Len(fallback_paths)
                 THEN /\ s_fallback_i' = s_fallback_i + 1
                      /\ UNCHANGED <<s_pc, s_result>>
                 ELSE /\ s_result' = FALSE
                      /\ s_pc' = "returned"
                      /\ UNCHANGED s_fallback_i
    /\ UNCHANGED <<device_root_status, s_serial, dev_facts, primary_state>>
    /\ UNCHANGED <<tvars, dvars, evars, cvars, pvars, lvars, mvars, avars, rvars, gvars, yvars>>

StorageNext ==
    \/ VerifyPrimary
    \/ CheckRootAccess
    \/ RootStorageSetup
    \/ TryFallback

StorageSpec == StorageInit /\ [][StorageNext]_vars

\* C10: when the primary path of the device is not writable and its first
\* fallback is, storage resolution succeeds with the base path equal to that
\* fallback, the video path base + "/Video" and the image path base + "/Image".
C10_FirstFallbackResolves ==
    (s_pc = "returned" /\ ~primary_state.is_writable /\ dev_facts.fallback_ok[1]) =>
        /\ s_result
        /\ eldersvr_path = test_path(1)
        /\ video_path = eldersvr_path \o "/Video"
        /\ image_path = eldersvr_path \o "/Image"

(***************************************************************************)
(* Claims about fatal-per-device errors, scope and routing of the transfer *)
(***************************************************************************)
\* _transfer_to_master / _transfer_to_slave of device d has returned to
\* cmd_transfer (cli.py 898-908)
Returned(d) ==
    /\ Processed(d)
    /\ cur = "done" \/ (d = "master" /\ cur = "slave")

\* the transfer of device d is over: it returned, or an exception raised in
\* it ended the command (cli.py 918-920)
Ended(d) ==
    \/ Returned(d)
    \/ Processed(d) /\ cur = d /\ pc = "returned"

\* create_eldersvr_structure returned False for device d (cli.py 1012-1014 /
\* 1174-1175): the only storage step of the transfer; verify_storage_access
\* is not called by it
MkdirFailed(d) == Returned(d) /\ dirs_created[d] < NumDirectories

AllClassesFailed(d) == \A c \in Classes : progress[d][c].status = "failed"

NoPushTo(d) == \A i \in 1..Len(pushLog) : pushLog[i].dev # d

\* C11: when no path of a device can be written (in the transfer: the
\* directory creation on the device fails), the transfer for that device
\* ends with the classes json, videos and images in status `failed` and with
\* no push attempt made to the device.
C11_NoWritablePathAllFailed ==
    \A d \in Roles : MkdirFailed(d) => AllClassesFailed(d) /\ NoPushTo(d)

\* every push of the json step of device d that was made succeeded, and the
\* step was executed
JsonStepSucceeded(d) ==
    /\ ~args.videos_only
    /\ \A i \in 1..Len(pushLog) :
          (pushLog[i].dev = d /\ ClassOf(pushLog[i].file) = "json")
              => pushLog[i].outcome = "ok"

\* C12: when OverrideAll is chosen for a device, the skip set is empty, the
\* manifest and every other file of the device's LocalFileSet has been pushed
\* when the device's transfer is over, and the json class is `completed` if
\* every push of the json step succeeded.
C12_OverrideAllPushesEverything ==
    \A d \in Roles :
        resolution[d] = "override_all" =>
            /\ files_to_skip[d] = {}
            /\ Ended(d) =>
                  /\ \A f \in local_files_to_transfer[d] : PushedTo(d, f)
                  /\ JsonStepSucceeded(d) => progress[d]["json"].status = "completed"

\* C13: after a Cancel resolution for a device no push to it is started, its
\* classes read `failed` and the transfer returns failure.
C13_CancelReportedFailed ==
    \A d \in Roles :
        resolution[d] = "cancel" =>
            /\ NoPushTo(d)
            /\ AllClassesFailed(d)
            /\ ~success
            /\ pc = "returned" => exit_code = 1

OtherRole(d) == IF d = "master" THEN "slave" ELSE "master"

\* the transfer to device d has been entered by cmd_transfer
CarriedOut(d) == Returned(d) \/ (Processed(d) /\ cur = d /\ pc # "dispatch")

FatalPerDevice(d) == MkdirFailed(d) \/ (Returned(d) /\ resolution[d] = "cancel")

\* C14: a fatal-per-device error on one device (directory creation failure,
\* Cancel) stops only that device: its result reads failed, and when the
\* command has returned the other configured device has been transferred to.
C14_FatalErrorIsolated ==
    \A d \in Roles :
        FatalPerDevice(d) =>
            /\ AllClassesFailed(d)
            /\ ~success
            /\ (pc = "returned" /\ Processed(OtherRole(d))) => CarriedOut(OtherRole(d))

\* the part of C14 that the code keeps: the other device is still processed
\* and the command fails
FatalErrorDoesNotAbortOthers ==
    \A d \in Roles :
        FatalPerDevice(d) =>
            /\ ~success
            /\ (pc = "returned" /\ Processed(OtherRole(d))) => CarriedOut(OtherRole(d))

SomePushFailed == \E i \in 1..Len(pushLog) : pushLog[i].outcome # "ok"

\* the files device d is to receive: its LocalFileSet without the skip set
ToPush(d) == local_files_to_transfer[d] \ files_to_skip[d]

\* C16 (transfer): a transfer in which a push failed returns a non-zero exit
\* status, and when it returns every other file of the run has been attempted
\* on every device that was not stopped by a fatal error.
C16_FailureExitsNonZeroAfterAll ==
    (pc = "returned" /\ SomePushFailed) =>
        /\ exit_code # 0
        /\ \A d \in Roles :
              (Processed(d) /\ resolution[d] # "cancel" /\ ~MkdirFailed(d)) =>
                  /\ dirs_created[d] = NumDirectories
                  /\ \A f \in ToPush(d) : PushedTo(d, f)

\* what is pushed to a device is a file of its role
RoutingRespected ==
    \A i \in 1..Len(pushLog) :
        /\ pushLog[i].dev = "master" => pushLog[i].file.cls # "highres"
        /\ pushLog[i].dev = "slave" => pushLog[i].file.cls \notin {"lowres", "credential"}

FullScope == ~args.videos_only /\ ~args.json_only

\* C17: the master is pushed only lowres videos and the slave only highres
\* videos and never the credential file; a device whose full-scope transfer
\* is over without a fatal error has been pushed the manifest, every local
\* image and, on the master, the credential file, except what its resolution
\* skips.
C17_RoleRouting ==
    /\ RoutingRespected
    /\ \A d \in Roles :
          (Ended(d) /\ FullScope /\ ~FatalPerDevice(d)) =>
              /\ NEW_DATA_JSON \notin files_to_skip[d] => PushedTo(d, NEW_DATA_JSON)
              /\ \A f \in localFs.images :
                    (localFs.images_dir /\ f \notin files_to_skip[d]) => PushedTo(d, f)
              /\ (d = "master" /\ localFs.credential
                    /\ CREDENTIAL_JSON \notin files_to_skip[d])
                    => PushedTo(d, CREDENTIAL_JSON)

\* the classes a pair of scope flags lets through
ScopeClasses(a) ==
    CASE a.videos_only /\ a.json_only -> {}
      [] a.videos_only -> {"videos"}
      [] a.json_only -> {"json"}
      [] OTHER -> Classes

\* C18: the LocalFileSet of a device and the files pushed to it are of the
\* classes the scope flags name: videos only with the video-only flag, the
\* manifest and credential only with the json-only flag.
C18_ScopeFlagsRestrict ==
    \A d \in Roles :
        /\ \A f \in local_files_to_transfer[d] : ClassOf(f) \in ScopeClasses(args)
        /\ \A i \in 1..Len(pushLog) :
              pushLog[i].dev = d => ClassOf(pushLog[i].file) \in ScopeClasses(args)

(***************************************************************************)
(* Claims about per-file errors of the engines                             *)
(***************************************************************************)
\* C15 (download engine): no error of a single file leaves the engine as an
\* exception: on the sequential and on the parallel path the failed task is
\* counted in the stats and the engine goes on to the remaining tasks, so a
\* run never ends by an exception and ends only with every task counted.
C15_NoErrorLeavesEngine ==
    /\ dl_pc # "raised"
    /\ \A i \in 1..Len(task_state) : task_state[i].status # "raised"
    /\ dl_pc = "returned" =>
          \A i \in 1..Len(task_state) : task_state[i].status = "counted"

\* the part of C15 the parallel path keeps: an exception of a worker is
\* recorded as a failed download and the run returns with every task counted
ParallelErrorsCaptured ==
    (dl_pc = "returned" /\ dl_args.parallel /\ Len(tasks_to_download) > 1) =>
        \A i \in 1..Len(task_state) : task_state[i].status = "counted"

(***************************************************************************)
(* Preflight of the commands (cli.py 217-336 and the call sites 382, 717,  *)
(* 767, 878, 1300-1308)                                                    *)
(***************************************************************************)
Commands == {"auth", "fetch-data", "download-videos", "transfer", "deploy"}

\* what the data check finds at <local_downloads>/<json_filename>
DataStates == {"missing", "unreadable", "issues", "valid"}

PreflightFacts ==
    [config_issues : BOOLEAN, api_reachable : BOOLEAN, token_valid : BOOLEAN,
     data : DataStates, master_serial : BOOLEAN, slave_serial : BOOLEAN,
     master_connected : BOOLEAN, slave_connected : BOOLEAN,
     adb_available : BOOLEAN, skip_auth : BOOLEAN]

\* the list each command hands to _preflight_check
CheckList(cmd, facts) ==
    CASE cmd = "auth" -> {"config", "api"}
      [] cmd = "fetch-data" -> {"config", "auth"}
      [] cmd = "download-videos" -> {"config", "data"}
      [] cmd = "transfer" -> {"config", "data", "devices"}
      [] OTHER -> {"config"}
                  \cup (IF ~facts.skip_auth THEN {"api"} ELSE {})
                  \cup (IF facts.master_serial \/ facts.slave_serial
                           THEN {"devices"} ELSE {})

\* what the command does once the preflight has passed
BodyOf(cmd) ==
    CASE cmd = "auth" -> "authenticate"
      [] cmd = "fetch-data" -> "fetch_data"
      [] cmd = "download-videos" -> "download_engine"
      [] cmd = "transfer" -> "device_transfer"
      [] OTHER -> "pipeline"

PreflightInit ==
    /\ pf_command \in Commands
    /\ pf_facts \in {f \in PreflightFacts :
                        /\ (f.skip_auth => pf_command = "deploy")
                        /\ (f.master_connected => f.adb_available)
                        /\ (f.slave_connected => f.adb_available)}
    /\ pf_checks = {}
    /\ pf_pc = "start"
    /\ all_passed = TRUE
    /\ pf_calls = <<>>
    /\ pf_exit = -1
    /\ TransferIdle /\ DownloadIdle /\ EquivIdle /\ StorageIdle /\ ConflictIdle /\ PushLoopIdle /\ ManagerIdle /\ AuthIdle /\ RetryIdle /\ ProgressIdle /\ DeployIdle

\* the command calls _preflight_check(checks): `all_passed = True`
PreflightEnter ==
    /\ pf_pc = "start"
    /\ pf_checks' = CheckList(pf_command, pf_facts)
    /\ all_passed' = TRUE
    /\ pf_pc' = "config"
    /\ UNCHANGED <<pf_command, pf_facts, pf_calls, pf_exit>>
    /\ UNCHANGED <<tvars, dvars, evars, svars, cvars, lvars, mvars, avars, rvars, gvars, yvars>>

\* cli.py 237-246
ConfigCheck ==
    /\ pf_pc = "config"
    /\ IF "config" \in pf_checks
          THEN /\ pf_calls' = Append(pf_calls, "validate_config")
               /\ all_passed' = (all_passed /\ ~pf_facts.config_issues)
          ELSE UNCHANGED <<pf_calls, all_passed>>
    /\ pf_pc' = "api"
    /\ UNCHANGED <<pf_command, pf_checks, pf_facts, pf_exit>>
    /\ UNCHANGED <<tvars, dvars, evars, svars, cvars, lvars, mvars, avars, rvars, gvars, yvars>>

\* mutant of AfterApiCheck: the checks go on after an unreachable API
AfterApiCheck_Mut(reachable) == "auth"

\* cli.py 254-259: `return all_passed` when the API is not reachable
AfterApiCheck(reachable) == IF reachable THEN "auth" ELSE "after"

\* cli.py 248-261: an unreachable API returns from _preflight_check at once
ApiCheck ==
    /\ pf_pc = "api"
    /\ IF "api" \in pf_checks \/ "auth" \in pf_checks
          THEN /\ pf_calls' = Append(pf_calls, "check_api_connectivity")
               /\ all_passed' = (all_passed /\ pf_facts.api_reachable)
               /\ pf_pc' = AfterApiCheck(pf_facts.api_reachable)
          ELSE /\ pf_pc' = "auth"
               /\ UNCHANGED <<pf_calls, all_passed>>
    /\ UNCHANGED <<pf_command, pf_checks, pf_facts, pf_exit>>
    /\ UNCHANGED <<tvars, dvars, evars, svars, cvars, lvars, mvars, avars, rvars, gvars, yvars>>

\* cli.py 263-272
AuthCheck ==
    /\ pf_pc = "auth"
    /\ IF "auth" \in pf_checks
          THEN /\ pf_calls' = Append(pf_calls, "validate_token")
               /\ all_passed' = (all_passed /\ pf_facts.token_valid)
          ELSE UNCHANGED <<pf_calls, all_passed>>
    /\ pf_pc' = "data"
    /\ UNCHANGED <<pf_command, pf_checks, pf_facts, pf_exit>>
    /\ UNCHANGED <<tvars, dvars, evars, svars, cvars, lvars, mvars, avars, rvars, gvars, yvars>>

\* mutant of DataCheckPasses: the issues validate_json_data reports are ignored
DataCheckPasses_Mut(data) == data \in {"valid", "issues"}

\* cli.py 280-299: the file exists, json.load reads it and validate_json_data
\* returns no issue
DataCheckPasses(data) == data = "valid"

\* cli.py 274-299: validate_json_data is called when the file exists and parses
DataCheck ==
    /\ pf_pc = "data"
    /\ IF "data" \in pf_checks
          THEN /\ pf_calls' = IF pf_facts.data \in {"issues", "valid"}
                                 THEN Append(pf_calls, "validate_json_data")
                                 ELSE pf_calls
               /\ all_passed' = (all_passed /\ DataCheckPasses(pf_facts.data))
          ELSE UNCHANGED <<pf_calls, all_passed>>
    /\ pf_pc' = "devices"
    /\ UNCHANGED <<pf_command, pf_checks, pf_facts, pf_exit>>
    /\ UNCHANGED <<tvars, dvars, evars, svars, cvars, lvars, mvars, avars, rvars, gvars, yvars>>

\* cli.py 306-329: every configured serial is in the list of `adb devices`;
\* get_connected_devices raises when adb is not available (adb_manager.py 149)
DevicesPass(facts) ==
    /\ facts.master_serial \/ facts.slave_serial
    /\ facts.adb_available
    /\ facts.master_serial => facts.master_connected
    /\ facts.slave_serial => facts.slave_connected

\* cli.py 301-329
DevicesCheck ==
    /\ pf_pc = "devices"
    /\ IF "devices" \in pf_checks
          THEN /\ pf_calls' = IF pf_facts.master_serial \/ pf_facts.slave_serial
                                 THEN Append(pf_calls, "get_connected_devices")
                                 ELSE pf_calls
               /\ all_passed' = (all_passed /\ DevicesPass(pf_facts))
          ELSE UNCHANGED <<pf_calls, all_passed>>
    /\ pf_pc' = "after"
    /\ UNCHANGED <<pf_command, pf_checks, pf_facts, pf_exit>>
    /\ UNCHANGED <<tvars, dvars, evars, svars, cvars, lvars, mvars, avars, rvars, gvars, yvars>>

\* `if not self._preflight_check([...]): return 1`
PreflightReturn ==
    /\ pf_pc = "after"
    /\ IF all_passed
          THEN /\ pf_pc' = "body"
               /\ UNCHANGED pf_exit
          ELSE /\ pf_pc' = "returned"
               /\ pf_exit' = 1
    /\ UNCHANGED <<pf_command, pf_checks, pf_facts, all_passed, pf_calls>>
    /\ UNCHANGED <<tvars, dvars, evars, svars, cvars, lvars, mvars, avars, rvars, gvars, yvars>>

\* the rest of the command; cmd_download_videos first reads new_data.json
\* again and returns 1 when that fails (cli.py 770-777), then starts the
\* engine (cli.py 810-818); the result of the body decides the exit status
CommandBody ==
    /\ pf_pc = "body"
    /\ IF pf_command = "download-videos" /\ pf_facts.data \in {"missing", "unreadable"}
          THEN /\ pf_exit' = 1
               /\ UNCHANGED pf_calls
          ELSE /\ pf_calls' = Append(pf_calls, BodyOf(pf_command))
               /\ pf_exit' \in {0, 1}
    /\ pf_pc' = "returned"
    /\ UNCHANGED <<pf_command, pf_checks, pf_facts, all_passed>>
    /\ UNCHANGED <<tvars, dvars, evars, svars, cvars, lvars, mvars, avars, rvars, gvars, yvars>>

PreflightNext ==
    \/ PreflightEnter
    \/ ConfigCheck
    \/ ApiCheck
    \/ AuthCheck
    \/ DataCheck
    \/ DevicesCheck
    \/ PreflightReturn
    \/ CommandBody

PreflightSpec == PreflightInit /\ [][PreflightNext]_vars

Called(name) == \E i \in 1..Len(pf_calls) : pf_calls[i] = name

PfReturned(cmd) == pf_command = cmd /\ pf_pc = "returned"

MaxPushFiles == 2
MaxPolls == 1

\* the local file: absent, of size 0, or with data
LocalStates == {"missing", "empty", "data"}

\* how `adb push` ends: exit status 0, another exit status, an exception of
\* Popen / communicate, or never (no timeout is set on the process)
ProcessOutcomes == {"ok", "fail", "raise", "hang"}

PushFile == [local : LocalStates, outcome : ProcessOutcomes]

\* push_images lists the directory itself (glob), so each of its files exists
PushLists(kind) ==
    {l \in SeqsUpTo(PushFile, MaxPushFiles) :
        kind = "images" => \A i \in 1..Len(l) : l[i].local # "missing"}

InProgressEntry(current, total) ==
    [status |-> "in_progress", current |-> current, total |-> total]

PushLoopInit ==
    /\ pl_kind \in {"videos", "images"}
    /\ pl_files \in PushLists(pl_kind)
    /\ pl_idx = 0
    /\ pl_pc = "loop"
    /\ success_count = 0
    /\ pl_polls = 0
    /\ pl_started = {}
    /\ pl_sink = <<>>
    \* cli.py 1118 / 1142: update_*_progress(serial, 0, total, 'in_progress')
    /\ pl_entry = InProgressEntry(0, Len(pl_files))
    /\ pl_result = <<>>
    /\ TransferIdle /\ DownloadIdle /\ EquivIdle /\ StorageIdle /\ ConflictIdle
    /\ PreflightIdle /\ ManagerIdle /\ AuthIdle /\ RetryIdle /\ ProgressIdle /\ DeployIdle

\* progress_callback(current, total, pct): update_*_progress(serial, current,
\* total, 'in_progress')
Deliver(current) ==
    /\ pl_sink' = Append(pl_sink, <<current, Len(pl_files)>>)
    /\ pl_entry' = InProgressEntry(current, Len(pl_files))

\* the value the polling loop passes as `current` (adb_manager.py 522, 586)
InFlightCurrent(idx) == idx - 1

\* top of the loop body for the next file: a missing video is skipped with
\* `continue` and no callback (499-501); otherwise the push is started, and an
\* exception of Popen is answered by a callback and `continue` (537-541)
StartPush ==
    /\ pl_pc = "loop"
    /\ pl_idx < Len(pl_files)
    /\ LET i == pl_idx + 1 IN
        /\ pl_idx' = i
        /\ pl_polls' = 0
        /\ IF pl_kind = "videos" /\ pl_files[i].local = "missing"
              THEN UNCHANGED <<pl_pc, pl_started, pl_sink, pl_entry>>
              ELSE /\ pl_started' = pl_started \cup {i}
                   /\ IF pl_files[i].outcome = "raise"
                         THEN /\ Deliver(success_count)
                              /\ UNCHANGED pl_pc
                         ELSE /\ pl_pc' = "inflight"
                              /\ UNCHANGED <<pl_sink, pl_entry>>
    /\ UNCHANGED <<pl_kind, pl_files, success_count, pl_result>>
    /\ UNCHANGED <<tvars, dvars, evars, svars, cvars, pvars, mvars, avars, rvars, gvars, yvars>>

\* one turn of `while process.poll() is None` (515-523, 580-587): a callback
\* with idx - 1 when the file is not empty
Poll ==
    /\ pl_pc = "inflight"
    /\ pl_polls < MaxPolls
    /\ pl_polls' = pl_polls + 1
    /\ IF pl_files[pl_idx].local = "data"
          THEN Deliver(InFlightCurrent(pl_idx))
          ELSE UNCHANGED <<pl_sink, pl_entry>>
    /\ UNCHANGED <<pl_kind, pl_files, pl_idx, pl_pc, success_count, pl_started,
                   pl_result>>
    /\ UNCHANGED <<tvars, dvars, evars, svars, cvars, pvars, mvars, avars, rvars, gvars, yvars>>

\* the process has exited (525-535, 589-599); a process that hangs never does
FinishPush ==
    /\ pl_pc = "inflight"
    /\ pl_files[pl_idx].outcome \in {"ok", "fail"}
    /\ LET n == IF pl_files[pl_idx].outcome = "ok"
                   THEN success_count + 1 ELSE success_count IN
        /\ success_count' = n
        /\ Deliver(n)
    /\ pl_pc' = "loop"
    /\ UNCHANGED <<pl_kind, pl_files, pl_idx, pl_polls, pl_started, pl_result>>
    /\ UNCHANGED <<tvars, dvars, evars, svars, cvars, pvars, mvars, avars, rvars, gvars, yvars>>

\* cli.py 1131-1136 / 1153-1158: status of the class after the loop
ClassStatusAfterLoop(ok, total) == IF ok = total THEN "completed" ELSE "failed"

\* `return success_count, len(file_list)` and the final update of the class
LoopReturn ==
    /\ pl_pc = "loop"
    /\ pl_idx = Len(pl_files)
    /\ pl_result' = <<success_count, Len(pl_files)>>
    /\ pl_entry' = [status |-> ClassStatusAfterLoop(success_count, Len(pl_files)),
                    current |-> success_count, total |-> Len(pl_files)]
    /\ pl_pc' = "returned"
    /\ UNCHANGED <<pl_kind, pl_files, pl_idx, success_count, pl_polls, pl_started,
                   pl_sink>>
    /\ UNCHANGED <<tvars, dvars, evars, svars, cvars, pvars, mvars, avars, rvars, gvars, yvars>>

PushLoopNext ==
    \/ StartPush
    \/ Poll
    \/ FinishPush
    \/ LoopReturn

PushLoopSpec == PushLoopInit /\ [][PushLoopNext]_vars

\* C20: every (current, total) value delivered to the progress sink during a
\* video or image push loop reflects actual outcomes: the `current` the sink
\* holds never exceeds the number of files of the loop pushed successfully so
\* far.
C20_CurrentWithinSuccesses ==
    pl_pc \in {"loop", "inflight"} => pl_entry.current <= success_count

\* the part of C20 the callbacks after a file's outcome keep
EndOfFileCurrentIsSuccessCount ==
    (pl_pc = "loop" /\ pl_sink # <<>>) => pl_entry.current = success_count

(***************************************************************************)
(* ManagerSpec: one ADBManager object (adb_manager.py 39-56) on which      *)
(* verify_storage_access, check_root_access and enable_adb_root are called *)
(* any number of times for the master and the slave serial.  The paths and *)
(* the root cache are the attributes of StorageSpec; each call is one step.*)
(***************************************************************************)
\* test -d / test -w of the primary path: both succeed, one fails, or one
\* times out
PrimaryOutcomes == {"writable", "not_writable", "timeout"}

\* `which su` and `su -c id`: the states of su, or a timeout of either
SuOutcomes == SuStates \cup {"timeout"}

\* index of the first fallback whose probe succeeds, 0 when none does
FirstWritable == 0..Len(fallback_paths)

\* `adb root` followed by `adb shell id`
AdbRootOutcomes == {"confirmed", "no_uid0", "unavailable", "timeout"}

\* mutant of IsCached: the cache is never consulted
IsCached_Mut(cache, s) == FALSE

\* adb_manager.py 69: `if serial in self._device_root_status`
IsCached(cache, s) == s \in DOMAIN cache

\* `self._device_root_status[serial] = v`
PutRootStatus(cache, s, v) ==
    [x \in DOMAIN cache \cup {s} |-> IF x = s THEN v ELSE cache[x]]

\* check_root_access (adb_manager.py 67-107): the cached value with no device
\* command, else the probe, whose answer is stored; a timeout stores False
check_root_access(cache, s, su) ==
    IF IsCached(cache, s)
    THEN [value |-> cache[s], cache |-> cache, commands |-> 0]
    ELSE [value |-> (su = "root"),
          cache |-> PutRootStatus(cache, s, su = "root"),
          commands |-> IF su \in {"none", "timeout"} THEN 1 ELSE 2]

\* enable_adb_root (adb_manager.py 109-145): only a confirmed uid 0 stores True
enable_adb_root(cache, s, outcome) ==
    IF outcome = "confirmed"
    THEN [value |-> TRUE, cache |-> PutRootStatus(cache, s, TRUE)]
    ELSE [value |-> FALSE, cache |-> cache]

\* _try_fallback_paths (adb_manager.py 241-278)
try_fallback_paths(path, first) ==
    IF first > 0 THEN [value |-> TRUE, path |-> test_path(first)]
    ELSE [value |-> FALSE, path |-> path]

\* verify_storage_access (adb_manager.py 190-239) as one call
verify_storage_access(path, cache, s, prim, su, setup_ok, first) ==
    IF prim = "timeout"
    THEN [value |-> FALSE, path |-> path, cache |-> cache, root |-> <<>>]
    ELSE IF prim = "writable"
    THEN [value |-> TRUE, path |-> path, cache |-> cache, root |-> <<>>]
    ELSE LET rc == check_root_access(cache, s, su)
             fb == try_fallback_paths(path, first)
         IN  IF rc.value /\ setup_ok
             THEN [value |-> TRUE, path |-> path, cache |-> rc.cache, root |-> <<rc>>]
             ELSE [value |-> fb.value, path |-> fb.path, cache |-> rc.cache,
                   root |-> <<rc>>]

\* ADBManager.__init__ with the configured device_path
ManagerInit ==
    /\ eldersvr_path \in {DefaultDevicePath, CustomDevicePath}
    /\ video_path = eldersvr_path \o "/Video"
    /\ image_path = eldersvr_path \o "/Image"
    /\ device_root_status = <<>>
    /\ s_serial = "none"
    /\ dev_facts = <<>>
    /\ primary_state = <<>>
    /\ s_pc = "idle"
    /\ s_fallback_i = 0
    /\ s_probes = <<>>
    /\ s_result = FALSE
    /\ ManagerIdle
    /\ TransferIdle /\ DownloadIdle /\ EquivIdle /\ ConflictIdle /\ PreflightIdle
    /\ PushLoopIdle /\ AuthIdle /\ RetryIdle /\ ProgressIdle /\ DeployIdle

\* the record kept of a call of check_root_access for serial s
RootCallOf(s, rc) ==
    [serial |-> s, value |-> rc.value, commands |-> rc.commands,
     repeated |-> root_returned[s] # {}]

NoteRootCall(s, rc) ==
    /\ root_call' = RootCallOf(s, rc)
    /\ root_returned' = [root_returned EXCEPT ![s] = @ \cup {rc.value}]

\* the answers of the device that the call comes to ask for
SuAsked(cache, s, prim) ==
    IF prim = "not_writable" /\ ~IsCached(cache, s) THEN SuOutcomes ELSE {"none"}

SetupAsked(cache, s, prim, su) ==
    IF prim = "not_writable" /\ check_root_access(cache, s, su).value
    THEN BOOLEAN ELSE {FALSE}

FallbacksAsked(prim, setup_ok) ==
    IF prim = "not_writable" /\ ~setup_ok THEN FirstWritable ELSE {0}

VerifyStorageAccessCall ==
    \E s \in Roles, prim \in PrimaryOutcomes :
    \E su \in SuAsked(device_root_status, s, prim) :
    \E setup_ok \in SetupAsked(device_root_status, s, prim, su) :
    \E first \in FallbacksAsked(prim, setup_ok) :
        LET r == verify_storage_access(eldersvr_path, device_root_status, s,
                                       prim, su, setup_ok, first)
        IN  /\ m_op' = "verify_storage_access"
            /\ m_serial' = s
            /\ eldersvr_path' = r.path
            /\ video_path' = r.path \o "/Video"
            /\ image_path' = r.path \o "/Image"
            /\ device_root_status' = r.cache
            /\ resolved' = IF r.value THEN [resolved EXCEPT ![s] = r.path]
                           ELSE resolved
            /\ IF r.root # <<>> THEN NoteRootCall(s, r.root[1])
               ELSE UNCHANGED <<root_call, root_returned>>
            /\ UNCHANGED root_enabled
            /\ UNCHANGED <<s_serial, dev_facts, primary_state, s_pc, s_fallback_i,
                           s_probes, s_result>>
            /\ UNCHANGED <<tvars, dvars, evars, cvars, pvars, lvars, avars, rvars, gvars, yvars>>

CheckRootAccessCall ==
    \E s \in Roles :
    \E su \in SuAsked(device_root_status, s, "not_writable") :
        LET rc == check_root_access(device_root_status, s, su)
        IN  /\ m_op' = "check_root_access"
            /\ m_serial' = s
            /\ device_root_status' = rc.cache
            /\ NoteRootCall(s, rc)
            /\ UNCHANGED <<resolved, root_enabled>>
            /\ UNCHANGED <<eldersvr_path, video_path, image_path, s_serial, dev_facts,
                           primary_state, s_pc, s_fallback_i, s_probes, s_result>>
            /\ UNCHANGED <<tvars, dvars, evars, cvars, pvars, lvars, avars, rvars, gvars, yvars>>

EnableAdbRootCall ==
    \E s \in Roles, outcome \in AdbRootOutcomes :
        LET r == enable_adb_root(device_root_status, s, outcome)
        IN  /\ m_op' = "enable_adb_root"
            /\ m_serial' = s
            /\ device_root_status' = r.cache
            /\ root_enabled' = [root_enabled EXCEPT ![s] = @ \/ r.value]
            /\ UNCHANGED <<resolved, root_returned, root_call>>
            /\ UNCHANGED <<eldersvr_path, video_path, image_path, s_serial, dev_facts,
                           primary_state, s_pc, s_fallback_i, s_probes, s_result>>
            /\ UNCHANGED <<tvars, dvars, evars, cvars, pvars, lvars, avars, rvars, gvars, yvars>>

ManagerNext ==
    \/ VerifyStorageAccessCall
    \/ CheckRootAccessCall
    \/ EnableAdbRootCall

ManagerSpec == ManagerInit /\ [][ManagerNext]_vars

\* C21: once a base path has been resolved for a device, the base, video and
\* image paths used for that device (the attributes every later operation on
\* it reads) equal that resolution, whatever is resolved later for the other
\* device.
C21_ResolvedPathsStay ==
    \A s \in Roles :
        resolved[s] # "" =>
            /\ eldersvr_path = resolved[s]
            /\ video_path = resolved[s] \o "/Video"
            /\ image_path = resolved[s] \o "/Image"

\* the part of C21 the object keeps: the video and image paths are always
\* derived from the one base path it holds
PathsDerivedFromBase ==
    /\ video_path = eldersvr_path \o "/Video"
    /\ image_path = eldersvr_path \o "/Image"

\* C22 as stated: once check_root_access has returned for a serial, every
\* later call for that serial returns the same value and issues no device
\* command, whatever is checked or enabled on either serial in between.
C22_RootValueNeverChanges ==
    /\ \A s \in Roles : Cardinality(root_returned[s]) <= 1
    /\ root_call.repeated => root_call.commands = 0

\* C22 amended: check_root_access answers from the per-serial cache: a call
\* for a serial whose value is cached issues no device command and returns
\* the cached value, which is the value of the first call unless
\* enable_adb_root has succeeded for that serial since, and True after that;
\* no call for another serial changes it.
C22_RootCachedPerSerial ==
    /\ root_call.repeated => root_call.commands = 0
    /\ \A s \in Roles :
          root_returned[s] # {} =>
              /\ IsCached(device_root_status, s)
              /\ device_root_status[s] \in root_returned[s] \/ root_enabled[s]
              /\ ~root_enabled[s] => root_returned[s] = {device_root_status[s]}
              /\ root_enabled[s] => device_root_status[s] = TRUE

\* witness of C22: a repeated call for the master has returned the cached
\* False without a device command, while the slave's cached value is True
C22_Witness ==
    /\ m_op = "check_root_access"
    /\ root_call.serial = "master"
    /\ root_call.repeated
    /\ root_call.commands = 0
    /\ root_call.value = FALSE
    /\ root_returned["master"] = {FALSE}
    /\ root_returned["slave"] = {TRUE}
    /\ ~root_enabled["master"] /\ ~root_enabled["slave"]

\* C23: in _preflight_check, when the API connectivity check fails the result
\* is False and the auth-token validation is never invoked.
C23_NoAuthCheckWhenApiDown ==
    (Called("check_api_connectivity") /\ ~pf_facts.api_reachable) =>
        /\ ~all_passed
        /\ ~Called("validate_token")
        /\ pf_pc \in {"after", "returned"}
        /\ pf_pc = "returned" => pf_exit = 1

\* witness of C23: fetch-data, whose preflight asks for the auth check, has
\* returned 1 on an unreachable API without validating a token that is valid
C23_Witness ==
    /\ PfReturned("fetch-data")
    /\ "auth" \in pf_checks
    /\ Called("check_api_connectivity")
    /\ ~pf_facts.api_reachable
    /\ pf_facts.token_valid
    /\ ~pf_facts.config_issues
    /\ ~Called("validate_token")
    /\ pf_exit = 1

(***************************************************************************)
(* AuthSpec: the authentication state of ContentManager                    *)
(* (content_manager.py 23-51, 53-104, 121-143, 651-702)                    *)
(***************************************************************************)
Tokens == {"t1", "t2"}

\* user / company of an answer of the backend: absent (read as {}) or present
InfoStates == {"empty", "data"}

StatusCodes == {200, 401, 403, 404, 500}

\* the request of validate_token: an answer with a status code, or one of the
\* exceptions it catches
BackendAnswers ==
    {[kind |-> "status", status |-> c] : c \in StatusCodes}
    \cup {[kind |-> k, status |-> 0] :
            k \in {"connection_error", "timeout", "request_error"}}

StoredFile(t, u, c) ==
    [state |-> "stored", token |-> t, user_info |-> u, company_info |-> c]

CorruptFile == [state |-> "corrupt", token |-> "none", user_info |-> "none",
                company_info |-> "none"]

\* _load_stored_token (content_manager.py 667-685): the three fields of a
\* readable file, nothing otherwise
LoadedFrom(file) ==
    IF file.state = "stored"
    THEN [auth_token |-> file.token, user_info |-> file.user_info,
          company_info |-> file.company_info]
    ELSE [auth_token |-> "none", user_info |-> "none", company_info |-> "none"]

\* a ContentManager has been constructed on whatever the token file holds
AuthInit ==
    /\ token_file \in {NoFile, CorruptFile}
                      \cup {StoredFile(t, "data", "data") : t \in Tokens}
    /\ auth_token = LoadedFrom(token_file).auth_token
    /\ user_info = LoadedFrom(token_file).user_info
    /\ company_info = LoadedFrom(token_file).company_info
    /\ a_op = "init"
    /\ auth_ok = FALSE
    /\ vt_answer = NoAnswer
    /\ vt_result = NoValidation
    /\ TransferIdle /\ DownloadIdle /\ EquivIdle /\ StorageIdle /\ ConflictIdle
    /\ PreflightIdle /\ PushLoopIdle /\ ManagerIdle /\ RetryIdle /\ ProgressIdle /\ DeployIdle

\* ContentManager.__init__ (content_manager.py 23-51)
Construct ==
    /\ auth_token' = LoadedFrom(token_file).auth_token
    /\ user_info' = LoadedFrom(token_file).user_info
    /\ company_info' = LoadedFrom(token_file).company_info
    /\ a_op' = "init"
    /\ UNCHANGED <<token_file, auth_ok, vt_answer, vt_result>>
    /\ UNCHANGED <<tvars, dvars, evars, svars, cvars, pvars, lvars, mvars, rvars, gvars, yvars>>

\* _store_token (content_manager.py 651-665): written only when the token,
\* user_info and company_info are all non-empty, and when the write succeeds
store_token(file, t, u, c, write_ok) ==
    IF u = "data" /\ c = "data" /\ write_ok THEN StoredFile(t, u, c) ELSE file

\* authenticate (content_manager.py 53-100): a rejected or failed request
\* changes nothing
Authenticate ==
    /\ \E accepted \in BOOLEAN, t \in Tokens, u \in InfoStates, c \in InfoStates,
          write_ok \in BOOLEAN :
         /\ auth_ok' = accepted
         /\ IF accepted
            THEN /\ auth_token' = t
                 /\ user_info' = u
                 /\ company_info' = c
                 /\ token_file' = store_token(token_file, t, u, c, write_ok)
            ELSE UNCHANGED <<auth_token, user_info, company_info, token_file>>
    /\ a_op' = "authenticate"
    /\ UNCHANGED <<vt_answer, vt_result>>
    /\ UNCHANGED <<tvars, dvars, evars, svars, cvars, pvars, lvars, mvars, rvars, gvars, yvars>>

\* logout (content_manager.py 687-702)
Logout ==
    /\ auth_token' = "none"
    /\ user_info' = "none"
    /\ company_info' = "none"
    /\ \E remove_ok \in BOOLEAN :
         token_file' = IF remove_ok THEN NoFile ELSE token_file
    /\ a_op' = "logout"
    /\ UNCHANGED <<auth_ok, vt_answer, vt_result>>
    /\ UNCHANGED <<tvars, dvars, evars, svars, cvars, pvars, lvars, mvars, rvars, gvars, yvars>>

\* validate_token (content_manager.py 121-143)
validate_token(token, answer) ==
    IF token = "none"
    THEN [valid |-> FALSE, message |-> "no_token", contacted |-> FALSE,
          had_token |-> FALSE]
    ELSE [valid |-> (answer.kind = "status" /\ answer.status = 200),
          message |-> CASE answer.kind # "status" -> answer.kind
                        [] answer.status = 200 -> "valid"
                        [] answer.status \in {401, 403} -> "expired_or_invalid"
                        [] OTHER -> "unexpected_status",
          contacted |-> TRUE,
          had_token |-> TRUE]

ValidateToken ==
    /\ \E answer \in BackendAnswers :
         /\ vt_answer' = answer
         /\ vt_result' = validate_token(auth_token, answer)
    /\ a_op' = "validate_token"
    /\ UNCHANGED <<auth_token, user_info, company_info, token_file, auth_ok>>
    /\ UNCHANGED <<tvars, dvars, evars, svars, cvars, pvars, lvars, mvars, rvars, gvars, yvars>>

AuthNext ==
    \/ Construct
    \/ Authenticate
    \/ Logout
    \/ ValidateToken

AuthSpec == AuthInit /\ [][AuthNext]_vars

Answered(code) == vt_answer.kind = "status" /\ vt_answer.status = code

\* C24: validate_token answers invalid without contacting the backend when no
\* token is stored; with a token, status 200 gives valid, status 401 gives
\* invalid (expired) and status 403 gives valid.
C24_TokenClassification ==
    a_op = "validate_token" =>
        /\ ~vt_result.had_token => (~vt_result.valid /\ ~vt_result.contacted)
        /\ (vt_result.had_token /\ Answered(200)) => vt_result.valid
        /\ (vt_result.had_token /\ Answered(401)) => ~vt_result.valid
        /\ (vt_result.had_token /\ Answered(403)) => vt_result.valid

\* the part of C24 the code keeps: every case but status 403
TokenClassificationBut403 ==
    a_op = "validate_token" =>
        /\ ~vt_result.had_token => (~vt_result.valid /\ ~vt_result.contacted)
        /\ (vt_result.had_token /\ Answered(200)) => vt_result.valid
        /\ (vt_result.had_token /\ Answered(401)) => ~vt_result.valid

(***************************************************************************)
(* RetrySpec: the retry loop of ContentManager.download_file               *)
(* (content_manager.py 231-281), called for one task after the other as    *)
(* _download_assets_sequential does (566-571)                              *)
(***************************************************************************)
MaxAttempts == 3
MaxSiblings == 2

FreshTask == [attempts |-> 0, sleeps |-> 0, failures |-> 0, result |-> "none"]

RetryInit ==
    /\ rt_retry_attempts \in 0..MaxAttempts
    /\ rt_tasks \in 1..MaxSiblings
    /\ rt_i = 0
    /\ rt_attempt = 0
    /\ rt_pc = "loop"
    /\ rt_state = [i \in 1..rt_tasks |-> FreshTask]
    /\ TransferIdle /\ DownloadIdle /\ EquivIdle /\ StorageIdle /\ ConflictIdle
    /\ PreflightIdle /\ PushLoopIdle /\ ManagerIdle /\ AuthIdle /\ ProgressIdle /\ DeployIdle

\* the caller takes the next task and calls download_file
NextTask ==
    /\ rt_pc = "loop"
    /\ rt_i < rt_tasks
    /\ rt_i' = rt_i + 1
    /\ rt_attempt' = 0
    /\ rt_pc' = "file"
    /\ UNCHANGED <<rt_retry_attempts, rt_tasks, rt_state>>
    /\ UNCHANGED <<tvars, dvars, evars, svars, cvars, pvars, lvars, mvars, avars, gvars, yvars>>

\* mutant of InRange: one attempt more than retry_attempts
InRange_Mut(attempt, retry_attempts) == attempt <= retry_attempts

\* `for attempt in range(self.retry_attempts)`
InRange(attempt, retry_attempts) == attempt < retry_attempts

\* content_manager.py 274: `if attempt < self.retry_attempts - 1`
RetryLeft(attempt, retry_attempts) == attempt < retry_attempts - 1

\* one turn of the loop body: the request and the write succeed, raise a
\* RequestException / OSError, or raise something else
DownloadAttempt ==
    /\ rt_pc = "file"
    /\ InRange(rt_attempt, rt_retry_attempts)
    /\ \E outcome \in AttemptOutcomes :
         LET t == rt_state[rt_i]
             t1 == [t EXCEPT !.attempts = @ + 1] IN
         CASE outcome = "ok" ->
                /\ rt_state' = [rt_state EXCEPT ![rt_i] = [t1 EXCEPT !.result = "ok"]]
                /\ rt_pc' = "loop"
           [] outcome = "transient" ->
                IF RetryLeft(rt_attempt, rt_retry_attempts)
                THEN /\ rt_state' = [rt_state EXCEPT ![rt_i] =
                                        [t1 EXCEPT !.failures = @ + 1]]
                     /\ rt_pc' = "sleep"
                ELSE /\ rt_state' = [rt_state EXCEPT ![rt_i] =
                                        [t1 EXCEPT !.failures = @ + 1,
                                                   !.result = "fail"]]
                     /\ rt_pc' = "loop"
           [] OTHER ->
                /\ rt_state' = [rt_state EXCEPT ![rt_i] = [t1 EXCEPT !.result = "raise"]]
                /\ rt_pc' = "raised"
    /\ UNCHANGED <<rt_retry_attempts, rt_tasks, rt_i, rt_attempt>>
    /\ UNCHANGED <<tvars, dvars, evars, svars, cvars, pvars, lvars, mvars, avars, gvars, yvars>>

\* time.sleep(self.retry_delay), then the next value of `attempt`
RetryDelay ==
    /\ rt_pc = "sleep"
    /\ rt_state' = [rt_state EXCEPT ![rt_i].sleeps = @ + 1]
    /\ rt_attempt' = rt_attempt + 1
    /\ rt_pc' = "file"
    /\ UNCHANGED <<rt_retry_attempts, rt_tasks, rt_i>>
    /\ UNCHANGED <<tvars, dvars, evars, svars, cvars, pvars, lvars, mvars, avars, gvars, yvars>>

\* the `return False` after the loop (content_manager.py 281)
LoopExhausted ==
    /\ rt_pc = "file"
    /\ ~InRange(rt_attempt, rt_retry_attempts)
    /\ rt_state' = [rt_state EXCEPT ![rt_i].result = "fail"]
    /\ rt_pc' = "loop"
    /\ UNCHANGED <<rt_retry_attempts, rt_tasks, rt_i, rt_attempt>>
    /\ UNCHANGED <<tvars, dvars, evars, svars, cvars, pvars, lvars, mvars, avars, gvars, yvars>>

\* the caller's loop ends
AllTasksTaken ==
    /\ rt_pc = "loop"
    /\ rt_i = rt_tasks
    /\ rt_pc' = "done"
    /\ UNCHANGED <<rt_retry_attempts, rt_tasks, rt_i, rt_attempt, rt_state>>
    /\ UNCHANGED <<tvars, dvars, evars, svars, cvars, pvars, lvars, mvars, avars, gvars, yvars>>

RetryNext ==
    \/ NextTask
    \/ DownloadAttempt
    \/ RetryDelay
    \/ LoopExhausted
    \/ AllTasksTaken

RetrySpec == RetryInit /\ [][RetryNext]_vars

\* C25: for each task download_file makes at most retry_attempts attempts,
\* reports success at the first attempt that succeeds, reports failure only
\* after retry_attempts consecutive transient failures, waits the retry delay
\* between consecutive attempts, and a task that exhausts its retries does
\* not stop or fail a sibling: the list is worked through to its end.
C25_BoundedRetries ==
    /\ \A i \in 1..rt_tasks :
          LET t == rt_state[i] IN
          /\ t.attempts <= rt_retry_attempts
          /\ t.result = "ok" =>
                (t.failures = t.attempts - 1 /\ t.sleeps = t.attempts - 1)
          /\ t.result = "fail" =>
                /\ t.attempts = rt_retry_attempts
                /\ t.failures = rt_retry_attempts
                /\ t.sleeps = IF rt_retry_attempts = 0 THEN 0
                              ELSE rt_retry_attempts - 1
          /\ t.result = "none" =>
                (t.sleeps <= t.attempts /\ t.attempts <= t.sleeps + 1)
    /\ rt_pc = "done" =>
          \A i \in 1..rt_tasks : rt_state[i].result \in {"ok", "fail"}
    /\ \A i \in 1..rt_tasks :
          (rt_state[i].result = "fail" /\ i < rt_tasks) => rt_pc # "raised" \/ rt_i > i

\* witness of C25: the first task has failed after three attempts and two
\* delays, and its sibling has then succeeded at its second attempt
C25_Witness ==
    /\ rt_pc = "done"
    /\ rt_retry_attempts = 3
    /\ rt_tasks = 2
    /\ rt_state[1] = [attempts |-> 3, sleeps |-> 2, failures |-> 3, result |-> "fail"]
    /\ rt_state[2] = [attempts |-> 2, sleeps |-> 1, failures |-> 1, result |-> "ok"]

\* C26: at every instant of a parallel download run at most
\* max_concurrent_downloads tasks are being downloaded, and each task of the
\* execution list is taken by exactly one worker: a task starts only from the
\* queue, never a second time, and at the return every task has been
\* downloaded and collected once.
C26_BoundedPoolEachTaskOnce ==
    /\ [](Cardinality(Running) <= dl_config.max_concurrent_downloads)
    /\ []((dl_pc = "returned" /\ dl_args.parallel /\ Len(tasks_to_download) > 1) =>
            /\ Len(task_state) = Len(tasks_to_download)
            /\ \A i \in 1..Len(task_state) :
                  task_state[i].status = "counted" /\ task_state[i].counted = 1)
    /\ [][\A i \in (DOMAIN task_state) \cap (DOMAIN task_state') :
            /\ (task_state'[i].status = "running" /\ task_state[i].status # "running")
                  => task_state[i].status = "queued"
            /\ task_state[i].status \in {"done", "counted"}
                  => task_state'[i].status \in {"done", "counted"}]_vars

\* witness of C26: both threads of a pool of two are downloading while a
\* third task waits in the queue
C26_Witness ==
    /\ dl_pc = "parallel"
    /\ dl_config.max_concurrent_downloads = 2
    /\ Cardinality(Running) = 2
    /\ \E i \in 1..Len(task_state) : task_state[i].status = "queued"

(***************************************************************************)
(* ProgressSpec: DownloadProgressTable (utils/progress.py 316-393) as      *)
(* _download_assets_parallel drives it (content_manager.py 489-553).       *)
(* Every method of the table runs under `with self.lock`, so each call is  *)
(* one atomic step; the calls of different workers interleave freely.      *)
(***************************************************************************)
MaxTableTasks == 3

QueuedWorker == [pos |-> "queued", success |-> FALSE]

\* the table is keyed by os.path.basename(task['local_path']); the manifest
\* decides the keys, and two tags whose imageUrl end in the same segment (or a
\* fileKey equal to a thumbnailKey) give two tasks of the same basename
ProgressInit ==
    /\ pt_tasks \in UNION {[1..n -> TableFileNames] : n \in 2..MaxTableTasks}
    /\ pt_max_workers \in 1..MaxWorkers
    /\ pt_pc = "adding"
    /\ pt_added = 0
    /\ pt_downloads = [f \in TableFileNames |-> "absent"]
    /\ pt_total_count = 0
    /\ pt_completed_count = 0
    /\ pt_worker = [i \in 1..Len(pt_tasks) |-> QueuedWorker]
    /\ TransferIdle /\ DownloadIdle /\ EquivIdle /\ StorageIdle /\ ConflictIdle
    /\ PreflightIdle /\ PushLoopIdle /\ ManagerIdle /\ AuthIdle /\ RetryIdle /\ DeployIdle

\* DownloadProgressTable.add_download: the entry is (re)written as pending
\* and total_count is incremented
add_download(downloads, filename) == [downloads EXCEPT ![filename] = "pending"]

\* DownloadProgressTable.update_download with status 'downloading'
update_download(downloads, filename) ==
    IF downloads[filename] # "absent"
    THEN [downloads EXCEPT ![filename] = "downloading"]
    ELSE downloads

\* DownloadProgressTable.mark_completed
mark_completed(downloads, filename, ok) ==
    IF downloads[filename] # "absent"
    THEN [downloads EXCEPT ![filename] = IF ok THEN "completed" ELSE "failed"]
    ELSE downloads

\* the loop over download_tasks before the pool is created
AddDownload ==
    /\ pt_pc = "adding"
    /\ pt_added < Len(pt_tasks)
    /\ pt_added' = pt_added + 1
    /\ pt_downloads' = add_download(pt_downloads, pt_tasks[pt_added + 1])
    /\ pt_total_count' = pt_total_count + 1
    /\ UNCHANGED <<pt_tasks, pt_max_workers, pt_pc, pt_completed_count, pt_worker>>
    /\ UNCHANGED <<tvars, dvars, evars, svars, cvars, pvars, lvars, mvars, avars, rvars, yvars>>

\* the ThreadPoolExecutor is entered and every task submitted
PoolCreated ==
    /\ pt_pc = "adding"
    /\ pt_added = Len(pt_tasks)
    /\ pt_pc' = "running"
    /\ UNCHANGED <<pt_tasks, pt_max_workers, pt_added, pt_downloads,
                   pt_total_count, pt_completed_count, pt_worker>>
    /\ UNCHANGED <<tvars, dvars, evars, svars, cvars, pvars, lvars, mvars, avars, rvars, yvars>>

TableRunning == {i \in 1..Len(pt_worker) : pt_worker[i].pos = "started"}

\* download_with_progress starts: update_download(filename, 0, 1, 'downloading')
WorkerBegin ==
    /\ pt_pc = "running"
    /\ PoolHasIdleThread(Cardinality(TableRunning), pt_max_workers)
    /\ \E i \in 1..Len(pt_worker) :
         /\ pt_worker[i].pos = "queued"
         /\ \A j \in 1..(i - 1) : pt_worker[j].pos # "queued"
         /\ pt_worker' = [pt_worker EXCEPT ![i].pos = "started"]
         /\ pt_downloads' = update_download(pt_downloads, pt_tasks[i])
    /\ UNCHANGED <<pt_tasks, pt_max_workers, pt_pc, pt_added, pt_total_count,
                   pt_completed_count>>
    /\ UNCHANGED <<tvars, dvars, evars, svars, cvars, pvars, lvars, mvars, avars, rvars, yvars>>

\* a chunk is written: progress_callback -> update_download(.., 'downloading')
ChunkCallback ==
    /\ pt_pc = "running"
    /\ \E i \in TableRunning :
         pt_downloads' = update_download(pt_downloads, pt_tasks[i])
    /\ UNCHANGED <<pt_tasks, pt_max_workers, pt_pc, pt_added, pt_total_count,
                   pt_completed_count, pt_worker>>
    /\ UNCHANGED <<tvars, dvars, evars, svars, cvars, pvars, lvars, mvars, avars, rvars, yvars>>

\* download_file has returned or raised: mark_completed(filename, success)
WorkerEnd ==
    /\ pt_pc = "running"
    /\ \E i \in TableRunning :
         \E ok \in BOOLEAN :
            /\ pt_worker' = [pt_worker EXCEPT ![i] = [pos |-> "done", success |-> ok]]
            /\ pt_downloads' = mark_completed(pt_downloads, pt_tasks[i], ok)
            /\ pt_completed_count' =
                 IF ok /\ pt_downloads[pt_tasks[i]] # "absent"
                 THEN pt_completed_count + 1 ELSE pt_completed_count
    /\ UNCHANGED <<pt_tasks, pt_max_workers, pt_pc, pt_added, pt_total_count>>
    /\ UNCHANGED <<tvars, dvars, evars, svars, cvars, pvars, lvars, mvars, avars, rvars, yvars>>

\* every future is collected, the pool is left and progress_table.finish() runs
TableFinish ==
    /\ pt_pc = "running"
    /\ \A i \in 1..Len(pt_worker) : pt_worker[i].pos = "done"
    /\ pt_pc' = "finished"
    /\ UNCHANGED <<pt_tasks, pt_max_workers, pt_added, pt_downloads,
                   pt_total_count, pt_completed_count, pt_worker>>
    /\ UNCHANGED <<tvars, dvars, evars, svars, cvars, pvars, lvars, mvars, avars, rvars, yvars>>

ProgressNext ==
    \/ AddDownload
    \/ PoolCreated
    \/ WorkerBegin
    \/ ChunkCallback
    \/ WorkerEnd
    \/ TableFinish

ProgressSpec == ProgressInit /\ [][ProgressNext]_vars

EntriesWith(status) == {f \in TableFileNames : pt_downloads[f] = status}
TrackedEntries == {f \in TableFileNames : pt_downloads[f] # "absent"}
SucceededTasks == {i \in 1..Len(pt_worker) : pt_worker[i].pos = "done" /\ pt_worker[i].success}

\* C27: once all workers have finished, completed_count equals the number of
\* tasks that succeeded, the entries with status completed plus those with
\* status failed are as many as the tasks executed, and total_count equals
\* the number of tracked entries.
C27_NoProgressUpdateLost ==
    pt_pc = "finished" =>
        /\ pt_completed_count = Cardinality(SucceededTasks)
        /\ Cardinality(EntriesWith("completed")) + Cardinality(EntriesWith("failed"))
              = Len(pt_tasks)
        /\ pt_total_count = Cardinality(TrackedEntries)

\* what the lock does give: the two counters are exact per task, and the
\* whole statement holds when the basenames of the list are pairwise distinct
CountersExactPerTask ==
    pt_pc = "finished" =>
        /\ pt_completed_count = Cardinality(SucceededTasks)
        /\ pt_total_count = Len(pt_tasks)
        /\ (Cardinality(Range(pt_tasks)) = Len(pt_tasks)) =>
              /\ Cardinality(EntriesWith("completed")) = Cardinality(SucceededTasks)
              /\ Cardinality(EntriesWith("completed"))
                    + Cardinality(EntriesWith("failed")) = Len(pt_tasks)
              /\ pt_total_count = Cardinality(TrackedEntries)

StepRank(f) ==
    CASE f.cls = "manifest" -> 1
      [] f.cls = "credential" -> 2
      [] ClassOf(f) = "videos" -> 3
      [] OTHER -> 4

\* the pushes made to one device follow the order of the steps, none is made
\* before the device's directories exist and its conflict check is resolved
StepOrderOfPushesMade ==
    /\ \A i, j \in 1..Len(pushLog) :
          (i < j /\ pushLog[i].dev = pushLog[j].dev)
              => StepRank(pushLog[i].file) <= StepRank(pushLog[j].file)
    /\ \A d \in Roles :
          /\ (cur = d /\ pc \in {"mkdir", "build", "prompt"}) => NoPushTo(d)
          /\ (checks[d] > 0 \/ ~NoPushTo(d)) => dirs_created[d] = NumDirectories

ExitedOk == {i \in pl_started : pl_files[i].outcome = "ok"}

\* what the loops keep: a failed push or an exception of one file is followed
\* by the attempt on the next, the count returned is the number of pushes
\* that exited successfully, and the class is completed iff count = total
FailedPushDoesNotStopLoop ==
    /\ \A i \in pl_started : \A j \in 1..(i - 1) :
          j \in pl_started \/ pl_files[j].local = "missing"
    /\ pl_pc = "returned" =>
          /\ pl_result[1] = Cardinality(ExitedOk)
          /\ pl_result[2] = Len(pl_files)
          /\ (pl_entry.status = "completed") <=> (pl_result[1] = pl_result[2])

\* C30: in the video and image push loops every file of the list (the list
\* holds the files the user did not skip) is attempted exactly once whatever
\* the outcome of the files before it, the returned success count is the
\* number of pushes that exited successfully, and the class is completed if
\* and only if that count equals the total.
C30_EveryFileAttemptedOnce ==
    pl_pc = "returned" =>
        /\ pl_started = 1..Len(pl_files)
        /\ pl_result[1] = Cardinality(ExitedOk)
        /\ (pl_entry.status = "completed") <=> (pl_result[1] = Len(pl_files))

\* a step that ends the treatment of a file: the loop is back at its top
\* with the file behind it
FileTreated ==
    /\ pl_pc' = "loop"
    /\ pl_idx' # pl_idx \/ pl_pc = "inflight"

\* the step issues a callback carrying the running (current, total) counter
CallbackIssued ==
    /\ Len(pl_sink') = Len(pl_sink) + 1
    /\ pl_sink'[Len(pl_sink')] = <<success_count', Len(pl_files)>>

\* what the loops keep: every file whose push was started (exit status 0,
\* another exit status, an exception of Popen) is answered by a callback
\* carrying (success_count, total) before the next file is started
CallbackAfterEveryStartedFile ==
    [][(FileTreated /\ pl_idx' \in pl_started') => CallbackIssued]_vars

\* C31: for every file of a video or image push list, whatever its outcome
\* (pushed, failed, local source missing), a progress callback carrying the
\* running (current, total) counter is issued after the file's outcome and
\* before the next file is started.
C31_CallbackAfterEveryFile ==
    [][FileTreated => CallbackIssued]_vars

(***************************************************************************)
(* Further claims about verify_storage_access (StorageSpec)                *)
(***************************************************************************)
ProbeRank(p) ==
    CASE p = "primary" -> 1
      [] p = "root_check" -> 2
      [] p = "root_setup" -> 3
      [] OTHER -> 4

ProbesOf(kind) == {i \in 1..Len(s_probes) : s_probes[i] = kind}

PrimaryOk == primary_state.dir_exists /\ primary_state.is_writable

\* the order the probes are issued in: the primary path first and once, the
\* root check and the root setup at most once and only after a primary path
\* that is not both existing and writable, the setup only with root detected,
\* then the fallbacks in their listed order, the first that succeeds ending
\* the resolution with its path as base
ProbeOrderKept ==
    /\ \A i, j \in 1..Len(s_probes) :
          i < j => ProbeRank(s_probes[i]) <= ProbeRank(s_probes[j])
    /\ s_pc # "start" => (Len(s_probes) >= 1 /\ s_probes[1] = "primary")
    /\ Cardinality(ProbesOf("primary")) <= 1
    /\ Cardinality(ProbesOf("root_check")) <= 1
    /\ Cardinality(ProbesOf("root_setup")) <= 1
    /\ Len(s_probes) > 1 => ~PrimaryOk
    /\ ProbesOf("root_setup") # {} =>
          (s_serial \in DOMAIN device_root_status /\ device_root_status[s_serial])
    /\ Cardinality(ProbesOf("fallback")) =
          (IF s_pc = "fallback" THEN s_fallback_i - 1 ELSE s_fallback_i)
    /\ (s_pc = "returned" /\ s_result /\ ProbesOf("fallback") # {}) =>
          /\ dev_facts.fallback_ok[s_fallback_i]
          /\ eldersvr_path = test_path(s_fallback_i)

\* C32: storage resolution probes in a fixed order (primary path, root
\* escalation only after a primary path that is not both existing and
\* writable, root setup only with root detected, then the fallbacks in their
\* listed order), accepts the first fallback that succeeds, and reports
\* failure only when every fallback has failed.
C32_ProbeOrderFailureAfterAllFallbacks ==
    /\ ProbeOrderKept
    /\ (s_pc = "returned" /\ ~s_result) =>
          Cardinality(ProbesOf("fallback")) = Len(fallback_paths)

\* a step of the resolution that ends it with a failure
EndsInFailure == s_pc # "returned" /\ s_pc' = "returned" /\ ~s_result'

\* what the code keeps of C33: a failure or timeout of the root check, the
\* root setup or a fallback probe is followed by the next step
LaterStepFailureContinues ==
    [][(EndsInFailure /\ s_pc # "start") =>
          (s_pc = "fallback" /\ s_fallback_i = Len(fallback_paths))]_vars

\* C33: a timeout (or failure) in a probe step of storage resolution is a
\* failure of that step only and resolution continues with the next step:
\* the only step that ends the resolution with a failure is the probe of the
\* last fallback.
C33_TimeoutFailsStepOnly ==
    [][EndsInFailure =>
          (s_pc = "fallback" /\ s_fallback_i = Len(fallback_paths))]_vars

(***************************************************************************)
(* Termination of the push loops: the loop takes its steps as long as one  *)
(* is possible (a single thread that is never suspended)                   *)
(***************************************************************************)
PushLoopFairSpec == PushLoopSpec /\ WF_vars(PushLoopNext)

\* what the loops keep: a list none of whose pushes hangs is worked through
\* and the loop returns
PushLoopReturnsWithoutHang ==
    (\A i \in 1..Len(pl_files) : pl_files[i].outcome # "hang")
        => <>(pl_pc = "returned")

\* C34: every push is bounded by a timeout, a push that never completes is
\* recorded as a failure of that file only and the loop moves on, so the push
\* loop of a device transfer always returns, even when a push hangs.
C34_PushLoopAlwaysReturns == <>(pl_pc = "returned")

(***************************************************************************)
(* Termination of a download run: every attempt terminates (an action of   *)
(* the run is one whole call of download_file), the main thread and the    *)
(* pool threads take their steps as long as one is possible                *)
(***************************************************************************)
DownloadFairSpec == DownloadSpec /\ WF_vars(DownloadNext)

\* every task of the execution list has one terminal outcome recorded
EveryTaskHasOneOutcome ==
    /\ Len(task_state) = Len(tasks_to_download)
    /\ \A i \in 1..Len(task_state) :
          task_state[i].status = "counted" /\ task_state[i].counted = 1

\* what the code keeps: a run on the parallel path returns, for every pool
\* size and every interleaving of the workers, with one outcome per task
ParallelRunReturns ==
    /\ (dl_pc = "parallel") ~> (dl_pc = "returned")
    /\ [](dl_pc = "returned" => EveryTaskHasOneOutcome)

\* C35: assuming every download attempt terminates, a download run eventually
\* returns, and when it returns every task of the execution list has exactly
\* one terminal outcome recorded (success or failed), for every pool size
\* and every interleaving of the workers.
C35_DownloadRunReturns ==
    /\ <>(dl_pc = "returned")
    /\ [](dl_pc = "returned" => EveryTaskHasOneOutcome)

(***************************************************************************)
(* Further claims about download_file (RetrySpec)                          *)
(***************************************************************************)
\* what the code keeps: with retry_attempts >= 1 a task reported failed has
\* been attempted
FailedAfterAttemptWhenRetryPositive ==
    rt_retry_attempts >= 1 =>
        \A i \in 1..rt_tasks :
            rt_state[i].result = "fail" => rt_state[i].attempts >= 1

\* C36: every task of the execution list is attempted at least once before
\* it is counted as failed, for every retry_attempts value the configuration
\* check accepts (retry_attempts >= 0).
C36_AttemptedBeforeFailed ==
    \A i \in 1..rt_tasks :
        rt_state[i].result = "fail" => rt_state[i].attempts >= 1

(***************************************************************************)
(* Further claims about the progress callbacks (PushLoopSpec)              *)
(***************************************************************************)
\* what the code keeps: the `current` of the end-of-file callbacks, which is
\* success_count, never decreases
EndOfFileCurrentMonotone ==
    [][(Len(pl_sink') = Len(pl_sink) + 1 /\ pl_pc' = "loop") =>
          /\ pl_sink'[Len(pl_sink')][1] = success_count'
          /\ success_count' >= success_count]_vars

\* C37: within one push loop the `current` value passed to successive
\* progress callbacks never decreases, whatever the mix of successful and
\* failed pushes and of in-flight and end-of-file callbacks.
C37_CurrentNeverDecreases ==
    \A i, j \in 1..Len(pl_sink) : i < j => pl_sink[i][1] <= pl_sink[j][1]

(***************************************************************************)
(* DeploySpec: cmd_deploy (cli.py 1293-1375), one action per step          *)
(***************************************************************************)
DeployArgs == [skip_auth : BOOLEAN, skip_fetch : BOOLEAN,
               skip_download : BOOLEAN, auto : BOOLEAN]

StepIndex(name) == CHOOSE i \in 1..Len(DeploySteps) : DeploySteps[i] = name

DeployInit ==
    /\ dp_args \in DeployArgs
    /\ dp_pc = "preflight"
    /\ dp_steps = [i \in 1..Len(DeploySteps) |-> "not_run"]
    /\ dp_failed_downloads = 0
    /\ dp_content_manager = FALSE
    /\ dp_exit = -1
    /\ TransferIdle /\ DownloadIdle /\ EquivIdle /\ StorageIdle /\ ConflictIdle
    /\ PreflightIdle /\ PushLoopIdle /\ ManagerIdle /\ AuthIdle /\ RetryIdle
    /\ ProgressIdle

\* a step ends: on failure cmd_deploy executes `return 1`, otherwise it goes
\* on to the step that follows in the code
StepDone(name, outcome, next) ==
    /\ dp_steps' = [dp_steps EXCEPT ![StepIndex(name)] = outcome]
    /\ IF outcome = "failed"
       THEN dp_pc' = "returned" /\ dp_exit' = 1
       ELSE dp_pc' = next /\ UNCHANGED dp_exit

\* cli.py 1300-1308: the preflight; its 'api' check builds the ContentManager
DeployPreflight ==
    /\ dp_pc = "preflight"
    /\ \E passed \in BOOLEAN :
         StepDone("preflight", IF passed THEN "ok" ELSE "failed", "adb")
    /\ dp_content_manager' = ~dp_args.skip_auth
    /\ UNCHANGED <<dp_args, dp_failed_downloads>>
    /\ UNCHANGED <<tvars, dvars, evars, svars, cvars, pvars, lvars, mvars, avars, rvars, gvars>>

\* cli.py 1310-1313
DeployVerifyAdb ==
    /\ dp_pc = "adb"
    /\ \E available \in BOOLEAN :
         StepDone("adb", IF available THEN "ok" ELSE "failed", "auth")
    /\ UNCHANGED <<dp_args, dp_failed_downloads, dp_content_manager>>
    /\ UNCHANGED <<tvars, dvars, evars, svars, cvars, pvars, lvars, mvars, avars, rvars, gvars>>

\* cli.py 1315-1335: the result of _create_credential_json is not looked at
DeployAuth ==
    /\ dp_pc = "auth"
    /\ IF dp_args.skip_auth
       THEN /\ StepDone("auth", "skipped", "fetch")
            /\ UNCHANGED dp_content_manager
       ELSE /\ \E authenticated \in BOOLEAN :
                 StepDone("auth", IF authenticated THEN "ok" ELSE "failed", "fetch")
            /\ dp_content_manager' = TRUE
    /\ UNCHANGED <<dp_args, dp_failed_downloads>>
    /\ UNCHANGED <<tvars, dvars, evars, svars, cvars, pvars, lvars, mvars, avars, rvars, gvars>>

\* cli.py 1337-1346: without a ContentManager the step fails at once
DeployFetch ==
    /\ dp_pc = "fetch"
    /\ IF dp_args.skip_fetch
       THEN StepDone("fetch", "skipped", "download")
       ELSE IF ~dp_content_manager
            THEN StepDone("fetch", "failed", "download")
            ELSE \E fetch_exit \in {0, 1} :
                    StepDone("fetch", IF fetch_exit = 0 THEN "ok" ELSE "failed",
                             "download")
    /\ UNCHANGED <<dp_args, dp_failed_downloads, dp_content_manager>>
    /\ UNCHANGED <<tvars, dvars, evars, svars, cvars, pvars, lvars, mvars, avars, rvars, gvars>>

\* mutant of cmd_download_videos_exit: failed files do not count
cmd_download_videos_exit_Mut(preflight_ok, readable, raised, failed_downloads) ==
    IF ~preflight_ok \/ ~readable \/ raised THEN 1 ELSE 0

\* return value of cmd_download_videos: 1 when its preflight fails (767-768),
\* new_data.json cannot be read (773-778), the engine raises (835-837) or a
\* file failed (829-831), else 0
cmd_download_videos_exit(preflight_ok, readable, raised, failed_downloads) ==
    IF ~preflight_ok \/ ~readable \/ raised \/ failed_downloads > 0 THEN 1 ELSE 0

\* cli.py 1348-1352
DeployDownload ==
    /\ dp_pc = "download"
    /\ IF dp_args.skip_download
       THEN /\ StepDone("download", "skipped", "detect")
            /\ UNCHANGED dp_failed_downloads
       ELSE \E preflight_ok \in BOOLEAN, readable \in BOOLEAN,
               raised \in BOOLEAN, failed \in 0..1 :
              /\ (~preflight_ok \/ ~readable \/ raised) => failed = 0
              /\ dp_failed_downloads' = failed
              /\ StepDone("download",
                          IF cmd_download_videos_exit(preflight_ok, readable,
                                                      raised, failed) = 0
                          THEN "ok" ELSE "failed",
                          "detect")
    /\ UNCHANGED <<dp_args, dp_content_manager>>
    /\ UNCHANGED <<tvars, dvars, evars, svars, cvars, pvars, lvars, mvars, avars, rvars, gvars>>

\* cli.py 1354-1357
DeployAutoDetect ==
    /\ dp_pc = "detect"
    /\ IF dp_args.auto
       THEN \E detected \in BOOLEAN :
               StepDone("detect", IF detected THEN "ok" ELSE "failed", "transfer")
       ELSE StepDone("detect", "skipped", "transfer")
    /\ UNCHANGED <<dp_args, dp_failed_downloads, dp_content_manager>>
    /\ UNCHANGED <<tvars, dvars, evars, svars, cvars, pvars, lvars, mvars, avars, rvars, gvars>>

\* cli.py 1359-1368
DeployTransfer ==
    /\ dp_pc = "transfer"
    /\ \E transfer_exit \in {0, 1} :
         StepDone("transfer", IF transfer_exit = 0 THEN "ok" ELSE "failed", "verify")
    /\ UNCHANGED <<dp_args, dp_failed_downloads, dp_content_manager>>
    /\ UNCHANGED <<tvars, dvars, evars, svars, cvars, pvars, lvars, mvars, avars, rvars, gvars>>

\* cli.py 1370-1375: a failed verification is a warning, deploy returns 0
DeployVerify ==
    /\ dp_pc = "verify"
    /\ \E verify_exit \in {0, 1} :
         dp_steps' = [dp_steps EXCEPT ![StepIndex("verify")] =
                         IF verify_exit = 0 THEN "ok" ELSE "failed"]
    /\ dp_pc' = "returned"
    /\ dp_exit' = 0
    /\ UNCHANGED <<dp_args, dp_failed_downloads, dp_content_manager>>
    /\ UNCHANGED <<tvars, dvars, evars, svars, cvars, pvars, lvars, mvars, avars, rvars, gvars>>

DeployNext ==
    \/ DeployPreflight
    \/ DeployVerifyAdb
    \/ DeployAuth
    \/ DeployFetch
    \/ DeployDownload
    \/ DeployAutoDetect
    \/ DeployTransfer
    \/ DeployVerify

DeploySpec == DeployInit /\ [][DeployNext]_vars

StepState(name) == dp_steps[StepIndex(name)]

\* C38: in the deploy pipeline the steps are sequential gates: the transfer
\* step starts only if the download step was skipped or returned success
\* with no failed file, the download step only if the fetch step was skipped
\* or succeeded, and a failure of a step before verification makes deploy
\* return non-zero without running the later steps.
C38_DeployStepsAreGates ==
    /\ (dp_pc = "transfer" \/ StepState("transfer") # "not_run") =>
          \/ StepState("download") = "skipped"
          \/ StepState("download") = "ok" /\ dp_failed_downloads = 0
    /\ (dp_pc = "download" \/ StepState("download") # "not_run") =>
          StepState("fetch") \in {"skipped", "ok"}
    /\ \A i \in 1..(Len(DeploySteps) - 1) :
          dp_steps[i] = "failed" =>
              /\ dp_pc = "returned"
              /\ dp_exit # 0
              /\ \A j \in (i + 1)..Len(DeploySteps) : dp_steps[j] = "not_run"

\* witness of C38: the download step ran after a successful fetch and ended
\* with a failed file; deploy returned 1 and no transfer was started
C38_Witness ==
    /\ dp_pc = "returned"
    /\ StepState("fetch") = "ok"
    /\ StepState("download") = "failed"
    /\ dp_failed_downloads = 1
    /\ StepState("transfer") = "not_run"
    /\ dp_exit = 1

(***************************************************************************)
(* Conflict state per device (Spec)                                        *)
(***************************************************************************)
\* the skip set of a device is fixed by its own conflict report and its own
\* resolution, and the conflict state is reset when the command starts
SkipSetIsOwn ==
    /\ \A d \in Roles :
          files_to_skip[d] =
              (IF resolution[d] = "skip_all" THEN conflict_check[d].conflicts ELSE {})
    /\ (\A d \in Roles : resolution[d] \in {"none", "cancel"}) =>
          conflict_action_all = "none"

\* what the code keeps: the skip sets are the devices' own, and after a
\* Cancel on the master the slave is transferred to
SlaveServedAfterMasterCancel ==
    /\ SkipSetIsOwn
    /\ (pc = "returned" /\ resolution["master"] = "cancel" /\ Processed("slave"))
          => CarriedOut("slave")

\* C39: the files skipped on a device depend only on that device's own
\* conflict report and resolution, the conflict state is reset at the start
\* of the command, and the resolution chosen for the master (SkipAll,
\* OverrideAll or Cancel) does not change what happens on the slave: as the
\* slave is transferred to after a Cancel on the master, it is transferred
\* to after every resolution of the master.
C39_SlaveIndependentOfMasterChoice ==
    /\ SkipSetIsOwn
    /\ (pc = "returned" /\ resolution["master"] # "none" /\ Processed("slave"))
          => CarriedOut("slave")

\* ---------------------------------------------------------------------------
\* Persistence of the authentication state (AuthSpec)
\* ---------------------------------------------------------------------------

\* what a ContentManager constructed now would hold as its token
TokenOfNewManager == LoadedFrom(token_file).auth_token

\* authenticate has just returned True
AuthenticatedNow == a_op = "authenticate" /\ auth_ok

\* What the code keeps: after a successful authenticate the manager itself
\* holds a token, and the token file either holds exactly what was obtained
\* or is what it was before the call; logout clears the manager and leaves
\* the file either removed or as it was.
TokenFileWrittenWholeOrNotAtAll ==
    [][/\ (a_op' = "authenticate" /\ auth_ok') =>
            /\ auth_token' # "none"
            /\ token_file' \in {StoredFile(auth_token', user_info', company_info'),
                                token_file}
       /\ (a_op' = "logout") =>
            /\ auth_token' = "none"
            /\ token_file' \in {NoFile, token_file}]_vars

\* C40: after every successful authenticate(), a ContentManager constructed
\* afterwards loads the token just obtained (and so is authenticated); after
\* logout(), a ContentManager constructed afterwards is not authenticated.
C40_AuthStateRoundTrip ==
    /\ AuthenticatedNow =>
          (TokenOfNewManager = auth_token /\ TokenOfNewManager # "none")
    /\ (a_op = "logout") => TokenOfNewManager = "none"
====
